---- MODULE Spec2Model ----
(***************************************************************************)
(* A model of the documentation tool dispatcher (DocRouter), its provider  *)
(* clients (docs.rs / crates.io, DevDocs, npm, PyPI, pkg.go.dev) and their *)
(* caches.  Strings are sequences of one-character strings, so that cache  *)
(* keys and URLs are built by concatenation exactly as format! builds them.*)
(***************************************************************************)
EXTENDS Integers, Sequences, FiniteSets, TLC

VARIABLES cache, task, lastSet, got, sets, workload

vars == <<cache, task, lastSet, got, sets, workload>>

(* ------------------------------------------------------------------ *)
(* Bounds of the model                                                  *)
(* ------------------------------------------------------------------ *)
\* call_tool invocations in a run
NumCalls == 2
\* DocCache::set calls made by the callers themselves in a run
MaxSets == 2
\* call_tool invocations in a run that repeats one request
NumMemoCalls == 3
\* call_tool invocations in a run that varies the arguments of one tool
NumArgsCalls == 1
\* tasks that share one DocCache through clones
NumWorkers == 3
\* DocCache::set calls each of those tasks makes on its own keys
SetsPerWorker == 2
\* result objects in an upstream search payload
MaxResults == 3

(* ------------------------------------------------------------------ *)
(* Option, strings                                                      *)
(* ------------------------------------------------------------------ *)
None == [some |-> FALSE]
Some(x) == [some |-> TRUE, val |-> x]

RECURSIVE Concat(_)
Concat(parts) ==
    IF parts = <<>> THEN <<>> ELSE Head(parts) \o Concat(Tail(parts))

starts_with(s, prefix) ==
    /\ Len(prefix) <= Len(s)
    /\ SubSeq(s, 1, Len(prefix)) = prefix

StripPrefix(s, prefix) == SubSeq(s, Len(prefix) + 1, Len(s))

Digit(d) ==
    CASE d = 0 -> "0" [] d = 1 -> "1" [] d = 2 -> "2" [] d = 3 -> "3"
      [] d = 4 -> "4" [] d = 5 -> "5" [] d = 6 -> "6" [] d = 7 -> "7"
      [] d = 8 -> "8" [] d = 9 -> "9"

RECURSIVE ToDecimal(_)
ToDecimal(n) ==
    IF n < 10 THEN <<Digit(n)>> ELSE ToDecimal(n \div 10) \o <<Digit(n % 10)>>

(* ------------------------------------------------------------------ *)
(* serde_json::Value as passed in `arguments`                           *)
(* ------------------------------------------------------------------ *)
JStr(s) == [t |-> "string", s |-> s]
\* a non-negative integer below 2^64, as its two base-2^32 digits: hi * 2^32 + lo
JInt(hi, lo) == [t |-> "number", neg |-> FALSE, hi |-> hi, lo |-> lo]
\* a negative integer -lo
JNeg(lo) == [t |-> "number", neg |-> TRUE, hi |-> 0, lo |-> lo]
\* a number serde_json holds as f64 (a fraction, or an integer of 2^64 and more)
JFloat == [t |-> "float"]
JBool(b) == [t |-> "bool", b |-> b]
JNull == [t |-> "null"]
JArray == [t |-> "array"]
JObject == [t |-> "object"]

\* Value::get on the arguments object
ArgGet(arguments, key) ==
    IF key \in DOMAIN arguments THEN Some(arguments[key]) ELSE None

\* an as_str that renders numbers as text
as_str_coerce(v) ==
    CASE v.t = "string" -> Some(v.s)
      [] v.t = "number" -> Some(<<"7">>)
      [] OTHER -> None

\* Value::as_str
as_str(v) == IF v.t = "string" THEN Some(v.s) ELSE None

\* an as_u64 that takes the magnitude of a negative integer
as_u64_magnitude(v) == IF v.t = "number" THEN Some([hi |-> v.hi, lo |-> v.lo]) ELSE None

\* Value::as_u64: Some for a non-negative integer held as u64
as_u64(v) == IF v.t = "number" /\ ~v.neg THEN Some([hi |-> v.hi, lo |-> v.lo]) ELSE None

\* `v as u32`: the low 32 bits of a u64
as_u32(v) == v.lo

\* arguments.get(key).and_then(|v| v.as_str())
GetStr(arguments, key) ==
    LET v == ArgGet(arguments, key) IN IF v.some THEN as_str(v.val) ELSE None

\* arguments.get("limit").and_then(|v| v.as_u64()).map(|v| v as u32)
GetLimit(arguments) ==
    LET v == ArgGet(arguments, "limit")
        n == IF v.some THEN as_u64(v.val) ELSE None
    IN  IF n.some THEN Some(as_u32(n.val)) ELSE None

\* a clamp with a lower bound of one: limit.unwrap_or(10).clamp(1, 100)
ClampLimit_atLeastOne(limit) ==
    LET l == IF limit.some THEN limit.val ELSE 10
    IN  IF l < 1 THEN 1 ELSE IF l < 100 THEN l ELSE 100

\* a clamp whose default is the cap
ClampLimit_defaultIsCap(limit) ==
    LET l == IF limit.some THEN limit.val ELSE 100
    IN  IF l < 100 THEN l ELSE 100

\* limit.unwrap_or(10).min(100)
ClampLimit(limit) ==
    LET l == IF limit.some THEN limit.val ELSE 10
    IN  IF l < 100 THEN l ELSE 100

(* ------------------------------------------------------------------ *)
(* ToolError, Content                                                   *)
(* ------------------------------------------------------------------ *)
InvalidParameters(msg) == [variant |-> "InvalidParameters", msg |-> msg]
ExecutionError(msg) == [variant |-> "ExecutionError", msg |-> msg]
NotFound(msg) == [variant |-> "NotFound", msg |-> msg]

Err(e) == [ok |-> FALSE, err |-> e]
Ok(x) == [ok |-> TRUE, val |-> x]

\* Content::text(doc)
ContentText(doc) == [type |-> "text", text |-> doc]

(* ------------------------------------------------------------------ *)
(* Upstream bodies and the texts made of them                           *)
(* ------------------------------------------------------------------ *)
\* html2md::parse_html, an external pure function: the markdown of a body
parse_html(body) == [kind |-> "markdown", of |-> body]

\* a body handed on unchanged
Raw(body) == [kind |-> "raw", body |-> body]

\* text assembled by push_str, as the sequence of pieces pushed
Rendered(pieces) == [kind |-> "rendered", pieces |-> pieces]

\* a caller's own string given to DocCache::set
Literal(s) == [kind |-> "literal", lit |-> s]

\* StatusCode::is_success
is_success(status) == status >= 200 /\ status <= 299

(* ------------------------------------------------------------------ *)
(* The caches: one map per provider                                     *)
(* ------------------------------------------------------------------ *)
Providers == {"router", "devdocs", "npm", "pypi", "go"}

\* HashMap::get(key).cloned()
MapGet(m, key) == IF key \in DOMAIN m THEN Some(m[key]) ELSE None

\* HashMap::insert(key, value)
MapInsert(m, key, value) ==
    [k \in DOMAIN m \cup {key} |-> IF k = key THEN value ELSE m[k]]

EmptyMap == [k \in {} |-> None]

(* ------------------------------------------------------------------ *)
(* str::split("::") and [..].join("/")                                  *)
(* ------------------------------------------------------------------ *)
\* the first index at which "::" starts in s, or 0
FindSep(s) ==
    LET hits == {i \in 1..(Len(s) - 1) : s[i] = ":" /\ s[i + 1] = ":"}
    IN  IF hits = {} THEN 0 ELSE CHOOSE i \in hits : \A j \in hits : i <= j

RECURSIVE Split(_)
Split(s) ==
    LET i == FindSep(s)
    IN  IF i = 0 THEN <<s>>
        ELSE <<SubSeq(s, 1, i - 1)>> \o Split(SubSeq(s, i + 2, Len(s)))

RECURSIVE Join(_, _)
Join(parts, sep) ==
    IF parts = <<>> THEN <<>>
    ELSE IF Len(parts) = 1 THEN parts[1]
    ELSE parts[1] \o sep \o Join(Tail(parts), sep)

(* ------------------------------------------------------------------ *)
(* DocRouter: docs.rs / crates.io                                       *)
(* ------------------------------------------------------------------ *)
lookup_crate_cache_key(crate_name, version) ==
    IF version.some THEN crate_name \o <<":">> \o version.val ELSE crate_name

lookup_crate_url(crate_name, version) ==
    IF version.some
    THEN <<"https://docs.rs/crate/">> \o crate_name \o <<"/">> \o version.val \o <<"/">>
    ELSE <<"https://docs.rs/crate/">> \o crate_name \o <<"/">>

search_crates_url(query, limit) ==
    <<"https://crates.io/api/v1/crates?q=">> \o query \o <<"&per_page=">>
        \o ToDecimal(ClampLimit(limit))

\* a lookup_item that uses the item path as the caller wrote it
StripCratePrefix_asWritten(crate_name, item_path) == item_path

\* the item path with a leading "<crate_name>::" removed
StripCratePrefix(crate_name, item_path) ==
    LET crate_prefix == crate_name \o <<":", ":">>
    IN  IF starts_with(item_path, crate_prefix)
        THEN StripPrefix(item_path, crate_prefix)
        ELSE item_path

\* a key built from the path as the caller wrote it
lookup_item_cache_key_rawPath(crate_name, item_path, version) ==
    IF version.some
    THEN crate_name \o <<":">> \o version.val \o <<":">> \o item_path
    ELSE crate_name \o <<":">> \o item_path

lookup_item_cache_key(crate_name, item_path, version) ==
    LET path == StripCratePrefix(crate_name, item_path)
    IN  IF version.some
        THEN crate_name \o <<":">> \o version.val \o <<":">> \o path
        ELSE crate_name \o <<":">> \o path

\* the candidate kinds with the first two exchanged
item_types_enumFirst == <<"enum", "struct", "trait", "fn", "macro">>

\* a candidate list with a sixth kind
item_types_withUnion == <<"struct", "enum", "trait", "fn", "macro", "union">>

item_types == <<"struct", "enum", "trait", "fn", "macro">>

lookup_item_url(crate_name, item_path, version, item_type) ==
    LET parts == Split(StripCratePrefix(crate_name, item_path))
        item_name == parts[Len(parts)]
        module_path == IF Len(parts) > 1
                       THEN Join(SubSeq(parts, 1, Len(parts) - 1), <<"/">>)
                       ELSE <<>>
        ver == IF version.some THEN version.val ELSE <<"latest">>
        tail == <<item_type, ".">> \o item_name \o <<".html">>
    IN  IF module_path = <<>>
        THEN <<"https://docs.rs/">> \o crate_name \o <<"/">> \o ver \o <<"/">>
                 \o crate_name \o <<"/">> \o tail
        ELSE <<"https://docs.rs/">> \o crate_name \o <<"/">> \o ver \o <<"/">>
                 \o crate_name \o <<"/">> \o module_path \o <<"/">> \o tail

(* ------------------------------------------------------------------ *)
(* DevDocsClient                                                        *)
(* ------------------------------------------------------------------ *)
devdocs == <<"d", "e", "v", "d", "o", "c", "s">>

list_documentations_cache_key == devdocs \o <<":", "l", "i", "s", "t">>

list_documentations_url == <<"https://devdocs.io/docs.json">>

get_documentation_cache_key(slug, entry) ==
    IF entry.some
    THEN devdocs \o <<":">> \o slug \o <<":">> \o entry.val
    ELSE devdocs \o <<":">> \o slug

get_documentation_url(slug, entry) ==
    IF entry.some
    THEN <<"https://devdocs.io/">> \o slug \o <<"/">> \o entry.val
    ELSE <<"https://devdocs.io/">> \o slug

search_documentation_cache_key(slug, query) ==
    devdocs \o <<":", "s", "e", "a", "r", "c", "h", ":">> \o slug \o <<":">> \o query

search_documentation_url(slug, query) ==
    <<"https://devdocs.io/">> \o slug \o <<"/", "?", "q", "=">> \o query

(* ------------------------------------------------------------------ *)
(* NpmClient                                                            *)
(* ------------------------------------------------------------------ *)
npm == <<"n", "p", "m">>
search == <<"s", "e", "a", "r", "c", "h">>

npm_lookup_package_cache_key(package_name, version) ==
    IF version.some
    THEN npm \o <<":">> \o package_name \o <<":">> \o version.val
    ELSE npm \o <<":">> \o package_name

npm_lookup_package_url(package_name, version) ==
    IF version.some
    THEN <<"https://registry.npmjs.org/">> \o package_name \o <<"/">> \o version.val
    ELSE <<"https://registry.npmjs.org/">> \o package_name

npm_search_packages_cache_key(query, limit) ==
    npm \o <<":">> \o search \o <<":">> \o query \o <<":">> \o ToDecimal(ClampLimit(limit))

npm_search_packages_url(query, limit) ==
    <<"https://registry.npmjs.org/-/v1/search?text=">> \o query \o <<"&size=">>
        \o ToDecimal(ClampLimit(limit))

(* ------------------------------------------------------------------ *)
(* PyPIClient                                                           *)
(* ------------------------------------------------------------------ *)
pypi == <<"p", "y", "p", "i">>

pypi_lookup_package_cache_key(package_name, version) ==
    IF version.some
    THEN pypi \o <<":">> \o package_name \o <<":">> \o version.val
    ELSE pypi \o <<":">> \o package_name

pypi_lookup_package_url(package_name, version) ==
    IF version.some
    THEN <<"https://pypi.org/pypi/">> \o package_name \o <<"/">> \o version.val \o <<"/json">>
    ELSE <<"https://pypi.org/pypi/">> \o package_name \o <<"/json">>

pypi_search_packages_cache_key(query, limit) ==
    pypi \o <<":">> \o search \o <<":">> \o query \o <<":">> \o ToDecimal(ClampLimit(limit))

pypi_search_packages_url(query) ==
    <<"https://pypi.org/search/?q=">> \o query \o <<"&format=json">>

\* a scrape that stores under a key of its own
scrape_search_results_cache_key_ownKey(query, limit) ==
    pypi \o <<":", "s", "c", "r", "a", "p", "e", ":">> \o query

\* scrape_search_results is given Some(limit), the limit already clamped
scrape_search_results_cache_key(query, limit) ==
    pypi \o <<":">> \o search \o <<":">> \o query \o <<":">>
        \o ToDecimal(ClampLimit(Some(ClampLimit(limit))))

scrape_search_results_url(query) == <<"https://pypi.org/search/?q=">> \o query

(* ------------------------------------------------------------------ *)
(* GoClient                                                             *)
(* ------------------------------------------------------------------ *)
go_package == <<"g", "o", ":", "p", "a", "c", "k", "a", "g", "e", ":">>
go_search == <<"g", "o", ":">> \o search \o <<":">>
go_item == <<"g", "o", ":", "i", "t", "e", "m", ":">>

go_lookup_package_cache_key(package_name, version) ==
    IF version.some
    THEN go_package \o package_name \o <<"@">> \o version.val
    ELSE go_package \o package_name

go_lookup_package_url(package_name, version) ==
    IF version.some
    THEN <<"https://pkg.go.dev/">> \o package_name \o <<"@">> \o version.val
    ELSE <<"https://pkg.go.dev/">> \o package_name

go_search_packages_cache_key(query, limit) ==
    go_search \o query \o <<":">> \o ToDecimal(ClampLimit(limit))

go_search_packages_url(query, limit) ==
    <<"https://pkg.go.dev/search?q=">> \o query \o <<"&limit=">>
        \o ToDecimal(ClampLimit(limit))

\* a key that puts the item before the version
go_lookup_item_cache_key_itemFirst(package_name, item_path, version) ==
    IF version.some
    THEN go_item \o package_name \o <<"#">> \o item_path \o <<"@">> \o version.val
    ELSE go_item \o package_name \o <<"#">> \o item_path

go_lookup_item_cache_key(package_name, item_path, version) ==
    IF version.some
    THEN go_item \o package_name \o <<"@">> \o version.val \o <<"#">> \o item_path
    ELSE go_item \o package_name \o <<"#">> \o item_path

go_lookup_item_url(package_name, item_path, version) ==
    IF version.some
    THEN <<"https://pkg.go.dev/">> \o package_name \o <<"@">> \o version.val
             \o <<"#">> \o item_path
    ELSE <<"https://pkg.go.dev/">> \o package_name \o <<"#">> \o item_path

(* ------------------------------------------------------------------ *)
(* DocRouter::call_tool: the match on tool_name and argument extraction *)
(* ------------------------------------------------------------------ *)
\* a match without the lookup_go_item arm
ToolArms_withoutGoItem ==
    <<"lookup_crate", "search_crates", "lookup_item",
      "list_devdocs_documentations", "get_devdocs_documentation",
      "search_devdocs_documentation",
      "lookup_npm_package", "search_npm_packages",
      "lookup_pypi_package", "search_pypi_packages",
      "lookup_go_package", "search_go_packages",
      "lookup_go_symbol">>

\* the arms of the match, in source order
ToolArms ==
    <<"lookup_crate", "search_crates", "lookup_item",
      "list_devdocs_documentations", "get_devdocs_documentation",
      "search_devdocs_documentation",
      "lookup_npm_package", "search_npm_packages",
      "lookup_pypi_package", "search_pypi_packages",
      "lookup_go_package", "search_go_packages",
      "lookup_go_symbol", "lookup_go_item">>

HasArm(tool_name) == \E i \in 1..Len(ToolArms) : ToolArms[i] = tool_name

\* arms that extract the second key of a two-key tool first
ArmRequired_secondFirst(tool_name) ==
    CASE tool_name = "lookup_crate" -> <<"crate_name">>
      [] tool_name = "search_crates" -> <<"query">>
      [] tool_name = "lookup_item" -> <<"item_path", "crate_name">>
      [] tool_name = "list_devdocs_documentations" -> <<>>
      [] tool_name = "get_devdocs_documentation" -> <<"slug">>
      [] tool_name = "search_devdocs_documentation" -> <<"query", "slug">>
      [] tool_name = "lookup_npm_package" -> <<"package_name">>
      [] tool_name = "search_npm_packages" -> <<"query">>
      [] tool_name = "lookup_pypi_package" -> <<"package_name">>
      [] tool_name = "search_pypi_packages" -> <<"query">>
      [] tool_name = "lookup_go_package" -> <<"package_name">>
      [] tool_name = "search_go_packages" -> <<"query">>
      [] tool_name = "lookup_go_symbol" -> <<"symbol_name", "package_name">>
      [] tool_name = "lookup_go_item" -> <<"item_path", "package_name">>

\* the keys an arm extracts with ok_or_else(InvalidParameters), in extraction order
ArmRequired(tool_name) ==
    CASE tool_name = "lookup_crate" -> <<"crate_name">>
      [] tool_name = "search_crates" -> <<"query">>
      [] tool_name = "lookup_item" -> <<"crate_name", "item_path">>
      [] tool_name = "list_devdocs_documentations" -> <<>>
      [] tool_name = "get_devdocs_documentation" -> <<"slug">>
      [] tool_name = "search_devdocs_documentation" -> <<"slug", "query">>
      [] tool_name = "lookup_npm_package" -> <<"package_name">>
      [] tool_name = "search_npm_packages" -> <<"query">>
      [] tool_name = "lookup_pypi_package" -> <<"package_name">>
      [] tool_name = "search_pypi_packages" -> <<"query">>
      [] tool_name = "lookup_go_package" -> <<"package_name">>
      [] tool_name = "search_go_packages" -> <<"query">>
      [] tool_name = "lookup_go_symbol" -> <<"package_name", "symbol_name">>
      [] tool_name = "lookup_go_item" -> <<"package_name", "item_path">>

\* the key an arm extracts as an optional string, if any
ArmOptional(tool_name) ==
    CASE tool_name \in {"lookup_crate", "lookup_item", "lookup_npm_package",
                        "lookup_pypi_package", "lookup_go_package",
                        "lookup_go_symbol", "lookup_go_item"} -> Some("version")
      [] tool_name = "get_devdocs_documentation" -> Some("entry")
      [] OTHER -> None

\* the arms that extract "limit"
ArmHasLimit(tool_name) ==
    tool_name \in {"search_crates", "search_npm_packages",
                   "search_pypi_packages", "search_go_packages"}

\* the position of the last key that is absent or not a string, or 0
FirstInvalid_last(tool_name, arguments) ==
    LET req == ArmRequired(tool_name)
        bad == {i \in 1..Len(req) : ~GetStr(arguments, req[i]).some}
    IN  IF bad = {} THEN 0 ELSE CHOOSE i \in bad : \A j \in bad : i >= j

\* the position in ArmRequired of the first key that is absent or not a string, or 0
FirstInvalid(tool_name, arguments) ==
    LET req == ArmRequired(tool_name)
        bad == {i \in 1..Len(req) : ~GetStr(arguments, req[i]).some}
    IN  IF bad = {} THEN 0 ELSE CHOOSE i \in bad : \A j \in bad : i <= j

\* ToolError::InvalidParameters("<field> is required")
MsgRequired(field) == [field |-> field, suffix |-> " is required"]

\* a NotFound message that leaves the name out
MsgToolNotFound_anonymous(tool_name) ==
    [prefix |-> "Tool ", tool_name |-> "", suffix |-> " not found"]

\* ToolError::NotFound(format!("Tool {} not found", tool_name))
MsgToolNotFound(tool_name) ==
    [prefix |-> "Tool ", tool_name |-> tool_name, suffix |-> " not found"]

\* the typed arguments an arm hands to the provider method
TypedCall(tool_name, arguments) ==
    LET req == ArmRequired(tool_name)
        opt == ArmOptional(tool_name)
    IN  [tool |-> tool_name,
         name |-> IF Len(req) >= 1 THEN GetStr(arguments, req[1]).val ELSE <<>>,
         sub |-> IF Len(req) >= 2 THEN GetStr(arguments, req[2]) ELSE None,
         opt |-> IF opt.some THEN GetStr(arguments, opt.val) ELSE None,
         limit |-> IF ArmHasLimit(tool_name) THEN GetLimit(arguments) ELSE None]

\* what call_tool does before any provider method runs:
\* Err(NotFound), Err(InvalidParameters) or Ok(typed arguments)
Dispatch(tool_name, arguments) ==
    IF ~HasArm(tool_name) THEN Err(NotFound(MsgToolNotFound(tool_name)))
    ELSE LET i == FirstInvalid(tool_name, arguments)
         IN  IF i # 0
             THEN Err(InvalidParameters(MsgRequired(ArmRequired(tool_name)[i])))
             ELSE Ok(TypedCall(tool_name, arguments))

(* ------------------------------------------------------------------ *)
(* Upstream answers                                                     *)
(* ------------------------------------------------------------------ *)
\* an HTML page
HtmlBody(id) == [fmt |-> "html", id |-> id, fields |-> <<>>, entries |-> None]

\* a JSON object: its members, and its result array if it has one
JsonBody(fields, entries) == [fmt |-> "json", id |-> 0, fields |-> fields, entries |-> entries]

\* serde_json::from_str succeeds
IsJson(body) == body.fmt = "json"

\* body.trim().starts_with('{')
StartsWithBrace(body) == body.fmt = "json"

\* send() failed
Transport(e) == [kind |-> "transport", e |-> e]

\* send() returned a response; text is None when reading the body fails
Response(status, text) == [kind |-> "response", status |-> status, text |-> text]

(* ------------------------------------------------------------------ *)
(* JSON to markdown                                                     *)
(* ------------------------------------------------------------------ *)
\* serde_json::Value as found in a document: a string, an array of values, an
\* object as its members in iteration order, or a number
DStr(s) == [t |-> "string", s |-> s, items |-> <<>>]
DArr(items) == [t |-> "array", s |-> "", items |-> items]
DObj(members) == [t |-> "object", s |-> "", items |-> members]
DNum == [t |-> "number", s |-> "", items |-> <<>>]
Member(k, v) == [k |-> k, v |-> v]

\* Map::get: the value of the last member named key
ObjectGet(members, key) ==
    LET I == {i \in 1..Len(members) : members[i].k = key}
    IN  IF I = {} THEN None
        ELSE Some(members[CHOOSE i \in I : \A j \in I : j <= i].v)

\* Value::get(key): None unless the value is an object that has the key
value_get(v, key) == IF v.t = "object" THEN ObjectGet(v.items, key) ELSE None

\* Value::as_array, Value::as_object
as_array(v) == IF v.t = "array" THEN Some(v.items) ELSE None
as_object(v) == IF v.t = "object" THEN Some(v.items) ELSE None

\* o.and_then(|v| v.get(key)), .and_then(|v| v.as_str()),
\* .and_then(|v| v.as_array()), .and_then(|v| v.as_object())
opt_get(o, key) == IF o.some THEN value_get(o.val, key) ELSE None
opt_as_str(o) == IF o.some THEN as_str(o.val) ELSE None
opt_as_array(o) == IF o.some THEN as_array(o.val) ELSE None
opt_as_object(o) == IF o.some THEN as_object(o.val) ELSE None

\* o.get(key).and_then(|v| v.as_str())
get_str(o, key) == opt_as_str(opt_get(o, key))

\* a string pushed as it is, and a string pushed after parse_html
Pushed(s) == [text |-> s, via |-> "push_str"]
Converted(s) == [text |-> s, via |-> "parse_html"]

\* one labeled part of the text and the strings of the document it shows
Part(label, shown) == [label |-> label, shown |-> shown]

\* a push that does not look whether the field is there
PartIf_always(label, o) ==
    <<Part(label, IF o.some THEN <<Pushed(o.val)>> ELSE <<>>)>>

\* if let Some(x) = .. { push_str(format!("<label> {}\n\n", x)) }
PartIf(label, o) == IF o.some THEN <<Part(label, <<Pushed(o.val)>>)>> ELSE <<>>

\* for item in items { if let Some(s) = item.as_str() { push "- {s}\n" } }
RECURSIVE Strings(_)
Strings(items) ==
    IF items = <<>> THEN <<>>
    ELSE (IF as_str(Head(items)).some THEN <<Pushed(Head(items).s)>> ELSE <<>>)
         \o Strings(Tail(items))

\* for (name, v) in members { if let Some(s) = v.as_str() { push "- {name}: {s}\n" } }
RECURSIVE StringMembers(_)
StringMembers(members) ==
    IF members = <<>> THEN <<>>
    ELSE (IF as_str(Head(members).v).some
          THEN <<Pushed(Head(members).k), Pushed(Head(members).v.s)>> ELSE <<>>)
         \o StringMembers(Tail(members))

\* npm keywords: every string keyword, with ", " before it unless it is the
\* first element of the array
RECURSIVE Keywords(_, _)
Keywords(items, i) ==
    IF i > Len(items) THEN <<>>
    ELSE (IF as_str(items[i]).some
          THEN (IF i > 1 THEN <<Pushed(", ")>> ELSE <<>>) \o <<Pushed(items[i].s)>>
          ELSE <<>>) \o Keywords(items, i + 1)

\* a list part: the label once, then the elements
KeywordsIf(label, o) == IF o.some THEN <<Part(label, Keywords(o.val, 1))>> ELSE <<>>
StringsIf(label, o) == IF o.some THEN <<Part(label, Strings(o.val))>> ELSE <<>>
MembersIf(label, o) == IF o.some THEN <<Part(label, StringMembers(o.val))>> ELSE <<>>

npm_lookup_render(package_name, body) ==
    LET doc == Some(DObj(body.fields))
        get(key) == opt_get(doc, key)
    IN  Rendered(
            <<[title |-> package_name]>>
            \o PartIf("**Version:**", get_str(doc, "version"))
            \o PartIf("", get_str(doc, "description"))
            \o KeywordsIf("**Keywords:**", opt_as_array(get("keywords")))
            \o PartIf("**Homepage:**", get_str(doc, "homepage"))
            \o PartIf("**Repository:**", get_str(get("repository"), "url"))
            \o PartIf("**License:**", get_str(doc, "license"))
            \o MembersIf("## Dependencies", opt_as_object(get("dependencies")))
            \o MembersIf("## Dev Dependencies", opt_as_object(get("devDependencies")))
            \o PartIf("## Documentation", get_str(doc, "readme")))

\* t.contains("markdown") || t.contains("md"), t.contains("text/html") ||
\* t.contains("html"), over the content types a document declares
ContentTypes == {"text/markdown", "text/html", "text/x-rst", "text/html; variant=md"}
ContainsMd(ct) == ct \in {"text/markdown", "text/html; variant=md"}
ContainsHtml(ct) == ct \in {"text/html", "text/html; variant=md"}

\* the description as its declared content type has it pushed
DescriptionAs(description, content_type) ==
    IF content_type.some /\ ContainsMd(content_type.val) THEN <<Pushed(description)>>
    ELSE IF content_type.some /\ ContainsHtml(content_type.val)
         THEN <<Converted(description)>>
         ELSE <<Pushed("code fence"), Pushed(description), Pushed("code fence")>>

pypi_lookup_render(package_name, body) ==
    LET doc == Some(DObj(body.fields))
        info == opt_get(doc, "info")
        get(key) == opt_get(info, key)
        author == get_str(info, "author")
        author_email == get_str(info, "author_email")
        description == get_str(info, "description")
        docs_url == get_str(get("project_urls"), "Documentation")
    IN  Rendered(
            <<[title |-> package_name]>>
            \o PartIf("**Version:**", get_str(info, "version"))
            \o PartIf("", get_str(info, "summary"))
            \o (IF author.some
                THEN <<Part("**Author:**",
                            <<Pushed(author.val)>>
                            \o (IF author_email.some
                                THEN <<Pushed(author_email.val)>> ELSE <<>>))>>
                ELSE <<>>)
            \o PartIf("**Homepage:**", get_str(info, "home_page"))
            \o PartIf("**License:**", get_str(info, "license"))
            \o StringsIf("**Classifiers:**", opt_as_array(get("classifiers")))
            \o MembersIf("**Project Links:**", opt_as_object(get("project_urls")))
            \o (IF description.some
                THEN <<Part("## Description",
                            DescriptionAs(description.val,
                                          get_str(info, "description_content_type")))>>
                ELSE <<>>)
            \o StringsIf("## Requirements", opt_as_array(get("requires_dist")))
            \o (IF docs_url.some THEN PartIf("## Documentation", docs_url)
                ELSE PartIf("## Documentation", get_str(info, "documentation_url"))))

\* o.get(field).and_then(|v| v.as_str()).unwrap_or("Unknown")
StrOrUnknown(o, field) == IF field \in DOMAIN o THEN o[field] ELSE "Unknown"

\* "## {i + 1}. {name} (v{version})" for one result object
Entry(i, o) ==
    [rank |-> i, name |-> StrOrUnknown(o, "name"), version |-> StrOrUnknown(o, "version")]

\* a PyPI rendering that ignores the limit
RenderEntries_all(entries, take) == [i \in 1..Len(entries) |-> Entry(i, entries[i])]

\* PyPI: results.iter().enumerate().take(limit), one entry per result object
RenderEntries(entries, take) ==
    [i \in 1..(IF Len(entries) < take THEN Len(entries) ELSE take) |-> Entry(i, entries[i])]

\* npm: objects.iter().enumerate(), one entry per object that has a "package",
\* numbered by the object's position
RECURSIVE RenderPackages(_, _)
RenderPackages(objects, i) ==
    IF i > Len(objects) THEN <<>>
    ELSE (IF "package" \in DOMAIN objects[i]
          THEN <<Entry(i, objects[i]["package"])>>
          ELSE <<>>) \o RenderPackages(objects, i + 1)

npm_search_render(query, body) ==
    Rendered(<<[title |-> query]>> \o
             (IF body.entries.some
              THEN RenderPackages(body.entries.val, 1)
              ELSE <<[text |-> "No packages found."]>>))

pypi_search_render(query, limit, body) ==
    Rendered(<<[title |-> query]>> \o
             (IF body.entries.some
              THEN RenderEntries(body.entries.val, ClampLimit(limit))
              ELSE <<[text |-> "No packages found."]>>))

(* ------------------------------------------------------------------ *)
(* Provider methods: cache, key, URLs, messages, normalization          *)
(* ------------------------------------------------------------------ *)
\* a lookup_go_symbol that keeps its entries in the router's own cache
CacheOf_symbolOnRouter(tool) ==
    CASE tool \in {"lookup_crate", "search_crates", "lookup_item", "lookup_go_symbol"} -> "router"
      [] tool \in {"list_devdocs_documentations", "get_devdocs_documentation",
                   "search_devdocs_documentation"} -> "devdocs"
      [] tool \in {"lookup_npm_package", "search_npm_packages"} -> "npm"
      [] tool \in {"lookup_pypi_package", "search_pypi_packages"} -> "pypi"
      [] tool \in {"lookup_go_package", "search_go_packages", "lookup_go_item"} -> "go"

\* the cache a tool's provider method reads and writes
CacheOf(tool) ==
    CASE tool \in {"lookup_crate", "search_crates", "lookup_item"} -> "router"
      [] tool \in {"list_devdocs_documentations", "get_devdocs_documentation",
                   "search_devdocs_documentation"} -> "devdocs"
      [] tool \in {"lookup_npm_package", "search_npm_packages"} -> "npm"
      [] tool \in {"lookup_pypi_package", "search_pypi_packages"} -> "pypi"
      [] tool \in {"lookup_go_package", "search_go_packages",
                   "lookup_go_symbol", "lookup_go_item"} -> "go"

\* the cache key a provider method computes; search_crates computes none
KeyOf(c) ==
    CASE c.tool = "lookup_crate" -> Some(lookup_crate_cache_key(c.name, c.opt))
      [] c.tool = "search_crates" -> None
      [] c.tool = "lookup_item" -> Some(lookup_item_cache_key(c.name, c.sub.val, c.opt))
      [] c.tool = "list_devdocs_documentations" -> Some(list_documentations_cache_key)
      [] c.tool = "get_devdocs_documentation" -> Some(get_documentation_cache_key(c.name, c.opt))
      [] c.tool = "search_devdocs_documentation" ->
             Some(search_documentation_cache_key(c.name, c.sub.val))
      [] c.tool = "lookup_npm_package" -> Some(npm_lookup_package_cache_key(c.name, c.opt))
      [] c.tool = "search_npm_packages" -> Some(npm_search_packages_cache_key(c.name, c.limit))
      [] c.tool = "lookup_pypi_package" -> Some(pypi_lookup_package_cache_key(c.name, c.opt))
      [] c.tool = "search_pypi_packages" -> Some(pypi_search_packages_cache_key(c.name, c.limit))
      [] c.tool = "lookup_go_package" -> Some(go_lookup_package_cache_key(c.name, c.opt))
      [] c.tool = "search_go_packages" -> Some(go_search_packages_cache_key(c.name, c.limit))
      [] c.tool \in {"lookup_go_symbol", "lookup_go_item"} ->
             Some(go_lookup_item_cache_key(c.name, c.sub.val, c.opt))

\* the number of URLs a provider method may fetch in one call
NumStages(tool) ==
    CASE tool = "lookup_item" -> Len(item_types)
      [] tool = "search_pypi_packages" -> 2
      [] OTHER -> 1

\* the URL of the fetch a provider method issues at a stage
UrlOf(c, stage) ==
    CASE c.tool = "lookup_crate" -> lookup_crate_url(c.name, c.opt)
      [] c.tool = "search_crates" -> search_crates_url(c.name, c.limit)
      [] c.tool = "lookup_item" -> lookup_item_url(c.name, c.sub.val, c.opt, item_types[stage])
      [] c.tool = "list_devdocs_documentations" -> list_documentations_url
      [] c.tool = "get_devdocs_documentation" -> get_documentation_url(c.name, c.opt)
      [] c.tool = "search_devdocs_documentation" -> search_documentation_url(c.name, c.sub.val)
      [] c.tool = "lookup_npm_package" -> npm_lookup_package_url(c.name, c.opt)
      [] c.tool = "search_npm_packages" -> npm_search_packages_url(c.name, c.limit)
      [] c.tool = "lookup_pypi_package" -> pypi_lookup_package_url(c.name, c.opt)
      [] c.tool = "search_pypi_packages" ->
             IF stage = 1 THEN pypi_search_packages_url(c.name)
             ELSE scrape_search_results_url(c.name)
      [] c.tool = "lookup_go_package" -> go_lookup_package_url(c.name, c.opt)
      [] c.tool = "search_go_packages" -> go_search_packages_url(c.name, c.limit)
      [] c.tool \in {"lookup_go_symbol", "lookup_go_item"} ->
             go_lookup_item_url(c.name, c.sub.val, c.opt)

\* "Failed to <what>: {e}" and "Failed to <what>. Status: {status}"
What(tool) ==
    CASE tool = "lookup_crate" -> "fetch documentation"
      [] tool = "search_crates" -> "search crates.io"
      [] tool = "list_devdocs_documentations" -> "fetch DevDocs list"
      [] tool = "get_devdocs_documentation" -> "fetch DevDocs documentation"
      [] tool = "search_devdocs_documentation" -> "search DevDocs"
      [] tool = "lookup_npm_package" -> "fetch npm package"
      [] tool = "search_npm_packages" -> "search npm packages"
      [] tool = "lookup_pypi_package" -> "fetch PyPI package"
      [] tool = "search_pypi_packages" -> "search PyPI packages"
      [] tool = "lookup_go_package" -> "fetch Go package documentation"
      [] tool = "search_go_packages" -> "search Go packages"
      [] tool \in {"lookup_go_symbol", "lookup_go_item"} -> "fetch Go item documentation"
      [] tool = "lookup_item" -> "fetch item documentation"

MsgCause(what, e) == [failed_to |-> what, cause |-> e]
MsgStatus(what, status) == [failed_to |-> what, status |-> status]

\* response.text() failed
ReadError(tool) ==
    ExecutionError(MsgCause(IF tool = "list_devdocs_documentations"
                            THEN "read response" ELSE "read response body",
                            "body error"))

ParseError == ExecutionError(MsgCause("parse JSON", "parse error"))

\* what a provider method makes of a body it has read: Ok(text) or Err(parse error)
Normalize(c, stage, body) ==
    CASE c.tool \in {"lookup_crate", "lookup_item", "get_devdocs_documentation",
                     "search_devdocs_documentation", "lookup_go_package",
                     "search_go_packages", "lookup_go_symbol", "lookup_go_item"} ->
             Ok(parse_html(body))
      [] c.tool = "list_devdocs_documentations" -> Ok(Raw(body))
      [] c.tool = "search_crates" ->
             IF StartsWithBrace(body) THEN Ok(Raw(body)) ELSE Ok(parse_html(body))
      [] c.tool = "lookup_npm_package" ->
             IF IsJson(body) THEN Ok(npm_lookup_render(c.name, body)) ELSE Err(ParseError)
      [] c.tool = "search_npm_packages" ->
             IF IsJson(body) THEN Ok(npm_search_render(c.name, body)) ELSE Err(ParseError)
      [] c.tool = "lookup_pypi_package" ->
             IF IsJson(body) THEN Ok(pypi_lookup_render(c.name, body)) ELSE Err(ParseError)
      [] c.tool = "search_pypi_packages" ->
             IF stage = 1 THEN Ok(pypi_search_render(c.name, c.limit, body))
             ELSE Ok(parse_html(body))

(* ------------------------------------------------------------------ *)
(* Cache access                                                         *)
(* ------------------------------------------------------------------ *)
\* a get that finds nothing
DocCache_get_absent(m, key) == None

\* DocCache::get
DocCache_get(m, key) == MapGet(m, key)

\* a set that replaces the whole map by the one entry
DocCache_set_replaceMap(m, key, value) == MapInsert(EmptyMap, key, value)

\* a set that keeps the value a key already has (first write wins)
DocCache_set_keepFirst(m, key, value) ==
    IF key \in DOMAIN m THEN m ELSE MapInsert(m, key, value)

\* DocCache::set
DocCache_set(m, key, value) == MapInsert(m, key, value)

\* DevDocsClient / NpmClient / PyPIClient ::get_cache
get_cache(m, key) == MapGet(m, key)

\* DevDocsClient / NpmClient / PyPIClient ::set_cache
set_cache(m, key, value) == MapInsert(m, key, value)

\* a lookup that finds nothing outside the router's own cache
ProviderGet_routerOnly(provider, m, key) ==
    IF provider = "router" THEN DocCache_get(m, key) ELSE None

\* a cache read that is served by any entry of the map
ProviderGet_anyEntry(provider, m, key) ==
    IF DOMAIN m = {} THEN None ELSE Some(m[CHOOSE k \in DOMAIN m : TRUE])

\* the cache read a provider method makes first
ProviderGet(provider, m, key) ==
    CASE provider = "router" -> DocCache_get(m, key)
      [] provider = "go" -> MapGet(m, key)
      [] OTHER -> get_cache(m, key)

\* a cache write that evicts every other entry
ProviderSet_evictOthers(provider, m, key, value) == MapInsert(EmptyMap, key, value)

\* a cache write that leaves a key alone once it holds a value
ProviderSet_firstWriterWins(provider, m, key, value) ==
    IF key \in DOMAIN m THEN m ELSE MapInsert(m, key, value)

\* the cache write a provider method makes last
ProviderSet(provider, m, key, value) ==
    CASE provider = "router" -> DocCache_set(m, key, value)
      [] provider = "go" -> MapInsert(m, key, value)
      [] OTHER -> set_cache(m, key, value)

(* ------------------------------------------------------------------ *)
(* A provider method between its cache miss and its first fetch         *)
(* ------------------------------------------------------------------ *)
\* ToolError::InvalidParameters("Invalid item path. Expected format: ...")
MsgInvalidItemPath == [invalid |-> "item path", suffix |-> "module::path::ItemName"]

\* a check that rejects an item path whose last part is empty
lookup_item_parts_check_emptyName(c) ==
    LET parts == Split(StripCratePrefix(c.name, c.sub.val))
    IN  IF parts = <<>> \/ parts[Len(parts)] = <<>>
        THEN Some(Err(InvalidParameters(MsgInvalidItemPath)))
        ELSE None

\* lookup_item after the miss: if parts.is_empty() { return Err(InvalidParameters) }
lookup_item_parts_check(c) ==
    IF Split(StripCratePrefix(c.name, c.sub.val)) = <<>>
    THEN Some(Err(InvalidParameters(MsgInvalidItemPath)))
    ELSE None

\* what a provider method returns after a miss without fetching, if anything
BeforeFetch(c) ==
    IF c.tool = "lookup_item" THEN lookup_item_parts_check(c) ELSE None

(* ------------------------------------------------------------------ *)
(* A provider method after an upstream answer                           *)
(* ------------------------------------------------------------------ *)
\* go on to the next fetch
Continue(stage, last_error) ==
    [done |-> FALSE, result |-> None, write |-> None, stage |-> stage,
     last_error |-> last_error]

\* return `result`, after storing `write` under the cache key if it is Some
Finish(stage, result, write) ==
    [done |-> TRUE, result |-> result, write |-> write, stage |-> stage,
     last_error |-> None]

\* the error of lookup_item when no candidate succeeded
NoMatchingItem(last_error) ==
    ExecutionError([failed_to |-> "fetch item documentation. No matching item found",
                    last_error |-> IF last_error.some THEN last_error.val
                                   ELSE [unknown |-> TRUE]])

\* a loop that keeps the first failure it saw as last_error
lookup_item_answer_firstError(c, stage, last_error, answer) ==
    LET seen(e) == IF last_error.some THEN last_error ELSE Some(e)
    IN  IF answer.kind = "transport"
        THEN IF stage < Len(item_types)
             THEN Continue(stage + 1, seen([cause |-> answer.e]))
             ELSE Finish(stage, Err(NoMatchingItem(seen([cause |-> answer.e]))), None)
        ELSE IF is_success(answer.status)
        THEN IF answer.text.some
             THEN Finish(stage, Ok(parse_html(answer.text.val)),
                         Some(parse_html(answer.text.val)))
             ELSE Finish(stage, Err(ReadError(c.tool)), None)
        ELSE IF stage < Len(item_types)
             THEN Continue(stage + 1, seen([status_code |-> answer.status]))
             ELSE Finish(stage, Err(NoMatchingItem(seen([status_code |-> answer.status]))),
                         None)

\* one iteration of the loop over item_types
lookup_item_answer(c, stage, last_error, answer) ==
    IF answer.kind = "transport"
    THEN IF stage < Len(item_types)
         THEN Continue(stage + 1, Some([cause |-> answer.e]))
         ELSE Finish(stage, Err(NoMatchingItem(Some([cause |-> answer.e]))), None)
    ELSE IF is_success(answer.status)
    THEN IF answer.text.some
         THEN Finish(stage, Ok(parse_html(answer.text.val)), Some(parse_html(answer.text.val)))
         ELSE Finish(stage, Err(ReadError(c.tool)), None)
    ELSE IF stage < Len(item_types)
         THEN Continue(stage + 1, Some([status_code |-> answer.status]))
         ELSE Finish(stage, Err(NoMatchingItem(Some([status_code |-> answer.status]))), None)

\* a search_packages that scrapes the HTML page after a failed send() as well
pypi_search_answer_scrapeOnTransport(c, stage, answer) ==
    IF answer.kind = "transport"
    THEN IF stage = 1 THEN Continue(2, None)
         ELSE Finish(stage, Err(ExecutionError(MsgCause(What(c.tool), answer.e))), None)
    ELSE IF ~is_success(answer.status)
    THEN IF stage = 1 THEN Continue(2, None)
         ELSE Finish(stage, Err(ExecutionError(MsgStatus(What(c.tool), answer.status))), None)
    ELSE IF ~answer.text.some
    THEN Finish(stage, Err(ReadError(c.tool)), None)
    ELSE IF stage = 1 /\ ~IsJson(answer.text.val)
    THEN Continue(2, None)
    ELSE LET n == Normalize(c, stage, answer.text.val)
         IN  Finish(stage, n, Some(n.val))

\* search_packages of PyPIClient (stage 1) and its scrape_search_results (stage 2)
pypi_search_answer(c, stage, answer) ==
    IF answer.kind = "transport"
    THEN Finish(stage, Err(ExecutionError(MsgCause(What(c.tool), answer.e))), None)
    ELSE IF ~is_success(answer.status)
    THEN IF stage = 1 THEN Continue(2, None)
         ELSE Finish(stage, Err(ExecutionError(MsgStatus(What(c.tool), answer.status))), None)
    ELSE IF ~answer.text.some
    THEN Finish(stage, Err(ReadError(c.tool)), None)
    ELSE IF stage = 1 /\ ~IsJson(answer.text.val)
    THEN Continue(2, None)
    ELSE LET n == Normalize(c, stage, answer.text.val)
         IN  Finish(stage, n, Some(n.val))

\* a provider method that stores an empty text when upstream answers a
\* non-success status
single_fetch_answer_cachesFailure(c, stage, answer) ==
    IF answer.kind = "transport"
    THEN Finish(stage, Err(ExecutionError(MsgCause(What(c.tool), answer.e))), None)
    ELSE IF ~is_success(answer.status)
    THEN Finish(stage, Err(ExecutionError(MsgStatus(What(c.tool), answer.status))),
                IF KeyOf(c).some THEN Some(Literal("")) ELSE None)
    ELSE IF ~answer.text.some
    THEN Finish(stage, Err(ReadError(c.tool)), None)
    ELSE LET n == Normalize(c, stage, answer.text.val)
         IN  IF n.ok
             THEN Finish(stage, n, IF KeyOf(c).some THEN Some(n.val) ELSE None)
             ELSE Finish(stage, n, None)

\* every other provider method: one fetch
single_fetch_answer(c, stage, answer) ==
    IF answer.kind = "transport"
    THEN Finish(stage, Err(ExecutionError(MsgCause(What(c.tool), answer.e))), None)
    ELSE IF ~is_success(answer.status)
    THEN Finish(stage, Err(ExecutionError(MsgStatus(What(c.tool), answer.status))), None)
    ELSE IF ~answer.text.some
    THEN Finish(stage, Err(ReadError(c.tool)), None)
    ELSE LET n == Normalize(c, stage, answer.text.val)
         IN  IF n.ok
             THEN Finish(stage, n, IF KeyOf(c).some THEN Some(n.val) ELSE None)
             ELSE Finish(stage, n, None)

OnAnswer(c, stage, last_error, answer) ==
    CASE c.tool = "lookup_item" -> lookup_item_answer(c, stage, last_error, answer)
      [] c.tool = "search_pypi_packages" -> pypi_search_answer(c, stage, answer)
      [] OTHER -> single_fetch_answer(c, stage, answer)

\* the key a provider method stores its text under
WriteKey(c, stage) ==
    IF c.tool = "search_pypi_packages" /\ stage = 2
    THEN scrape_search_results_cache_key(c.name, c.limit)
    ELSE KeyOf(c).val

\* a call_tool that returns no content item
Wrap_noContent(r) == IF r.ok THEN Ok(<<>>) ELSE r

\* a call_tool that reports every provider failure as NotFound
Wrap_asNotFound(r) == IF r.ok THEN Ok(<<ContentText(r.val)>>) ELSE Err(NotFound(r.err.msg))

\* call_tool's result for what the provider method returned:
\* Ok(vec![Content::text(doc)]), or the provider's error unchanged
Wrap(r) == IF r.ok THEN Ok(<<ContentText(r.val)>>) ELSE r

(* ------------------------------------------------------------------ *)
(* DocRouter::list_tools: the advertised tools and their input schemas  *)
(* ------------------------------------------------------------------ *)
ToolSchema(name, properties, required) ==
    [name |-> name, properties |-> properties, required |-> required]

\* a registry that advertises one tool twice
list_tools_duplicate ==
    <<ToolSchema("lookup_crate", {"crate_name", "version"}, <<"crate_name">>),
      ToolSchema("search_crates", {"query", "limit"}, <<"query">>),
      ToolSchema("lookup_crate", {"crate_name", "version"}, <<"crate_name">>)>>

list_tools ==
    <<ToolSchema("lookup_crate", {"crate_name", "version"}, <<"crate_name">>),
      ToolSchema("search_crates", {"query", "limit"}, <<"query">>),
      ToolSchema("lookup_item", {"crate_name", "item_path", "version"},
                 <<"crate_name", "item_path">>),
      ToolSchema("list_devdocs_documentations", {}, <<>>),
      ToolSchema("get_devdocs_documentation", {"slug", "entry"}, <<"slug">>),
      ToolSchema("search_devdocs_documentation", {"slug", "query"},
                 <<"slug", "query">>),
      ToolSchema("lookup_npm_package", {"package_name", "version"},
                 <<"package_name">>),
      ToolSchema("search_npm_packages", {"query", "limit"}, <<"query">>),
      ToolSchema("lookup_pypi_package", {"package_name", "version"},
                 <<"package_name">>),
      ToolSchema("search_pypi_packages", {"query", "limit"}, <<"query">>),
      ToolSchema("lookup_go_package", {"package_name", "version"},
                 <<"package_name">>),
      ToolSchema("search_go_packages", {"query", "limit"}, <<"query">>),
      ToolSchema("lookup_go_symbol", {"package_name", "symbol_name", "version"},
                 <<"package_name", "symbol_name">>),
      ToolSchema("lookup_go_item", {"package_name", "item_path", "version"},
                 <<"package_name", "item_path">>)>>

\* the names list_tools advertises
RegisteredTools == {list_tools[i].name : i \in 1..Len(list_tools)}

\* the schema list_tools advertises for a registered tool
SchemaOf(tool_name) ==
    list_tools[CHOOSE i \in 1..Len(list_tools) : list_tools[i].name = tool_name]

(* ------------------------------------------------------------------ *)
(* State                                                                *)
(*   cache[p]  the map of provider p                                    *)
(*   task[t]   the t-th call_tool invocation of the run: idle (not yet  *)
(*             made), fetching (awaiting the answer to the last URL of  *)
(*             `urls`) or done; invocations overlap freely.  `answer`   *)
(*             is the last upstream answer the invocation received      *)
(*   lastSet   history: key -> value of the last DocCache::set on the   *)
(*             router's cache                                           *)
(*   got       the last DocCache::get made by a caller: its key, its    *)
(*             result, and what lastSet held for the key at that moment *)
(*   sets      DocCache::set calls made by callers so far               *)
(*   workload  what the callers of this run may ask: the requests, and  *)
(*             the keys they use on router.cache directly.  The         *)
(*             providers share no state (each owns its map), so a run   *)
(*             of the router is an interleaving of runs that each use   *)
(*             one provider; a workload holds requests of one provider. *)
(* ------------------------------------------------------------------ *)
Idle == [pc |-> "idle"]

InitOver(workloads, calls) ==
    /\ cache = [p \in Providers |-> EmptyMap]
    /\ task = [t \in 1..calls |-> Idle]
    /\ lastSet = EmptyMap
    /\ got = None
    /\ sets = 0
    /\ workload \in workloads

\* a caller's DocCache::set on router.cache
CacheSet(key, value) ==
    /\ sets < MaxSets
    /\ sets' = sets + 1
    /\ cache' = [cache EXCEPT !["router"] = DocCache_set(@, key, value)]
    /\ lastSet' = MapInsert(lastSet, key, value)
    /\ UNCHANGED <<task, got, workload>>

\* a get that takes the entry out of the map
CacheGet_take(key) ==
    /\ got' = Some([key |-> key, value |-> DocCache_get(cache["router"], key),
                     last_set |-> MapGet(lastSet, key)])
    /\ cache' = [cache EXCEPT !["router"] = [j \in DOMAIN @ \ {key} |-> @[j]]]
    /\ UNCHANGED <<task, lastSet, sets, workload>>

\* a caller's DocCache::get on router.cache
CacheGet(key) ==
    /\ got' = Some([key |-> key, value |-> DocCache_get(cache["router"], key),
                     last_set |-> MapGet(lastSet, key)])
    /\ UNCHANGED <<cache, task, lastSet, sets, workload>>

\* call_tool up to its first suspension: argument extraction, then the provider
\* method's cache lookup and, on a miss, the issue of its first fetch.
\* Invocations are numbered in the order they are made.
CallTool(t, tool_name, arguments) ==
    /\ task[t].pc = "idle"
    /\ t > 1 => task[t - 1].pc # "idle"
    /\ LET d == Dispatch(tool_name, arguments)
       IN  IF ~d.ok
           THEN task' = [task EXCEPT ![t] =
                    [pc |-> "done", tool_name |-> tool_name, arguments |-> arguments,
                     urls |-> <<>>, answer |-> None, result |-> d]]
           ELSE LET c == d.val
                    key == KeyOf(c)
                    hit == IF key.some
                           THEN ProviderGet(CacheOf(c.tool), cache[CacheOf(c.tool)], key.val)
                           ELSE None
                IN  IF hit.some
                    THEN task' = [task EXCEPT ![t] =
                             [pc |-> "done", tool_name |-> tool_name,
                              arguments |-> arguments, urls |-> <<>>,
                              answer |-> None, result |-> Wrap(Ok(hit.val))]]
                    ELSE IF BeforeFetch(c).some
                    THEN task' = [task EXCEPT ![t] =
                             [pc |-> "done", tool_name |-> tool_name,
                              arguments |-> arguments, urls |-> <<>>,
                              answer |-> None, result |-> BeforeFetch(c).val]]
                    ELSE task' = [task EXCEPT ![t] =
                             [pc |-> "fetching", tool_name |-> tool_name,
                              arguments |-> arguments, call |-> c, stage |-> 1,
                              last_error |-> None, urls |-> <<UrlOf(c, 1)>>,
                              answer |-> None]]
    /\ UNCHANGED <<cache, lastSet, got, sets, workload>>

\* the upstream answers the fetch task t awaits; the provider method runs on to
\* its next fetch or to its return
Respond(t, answer) ==
    /\ task[t].pc = "fetching"
    /\ LET c == task[t].call
           r == OnAnswer(c, task[t].stage, task[t].last_error, answer)
           p == CacheOf(c.tool)
       IN  IF r.done
           THEN /\ task' = [task EXCEPT ![t] =
                        [pc |-> "done", tool_name |-> task[t].tool_name,
                         arguments |-> task[t].arguments, urls |-> task[t].urls,
                         answer |-> Some(answer), result |-> Wrap(r.result)]]
                /\ IF r.write.some
                   THEN /\ cache' = [cache EXCEPT
                                ![p] = ProviderSet(p, @, WriteKey(c, r.stage), r.write.val)]
                        /\ lastSet' = IF p = "router"
                                      THEN MapInsert(lastSet, WriteKey(c, r.stage), r.write.val)
                                      ELSE lastSet
                   ELSE UNCHANGED <<cache, lastSet>>
           ELSE /\ task' = [task EXCEPT ![t] =
                        [@ EXCEPT !.stage = r.stage, !.last_error = r.last_error,
                                  !.urls = Append(@, UrlOf(c, r.stage)),
                                  !.answer = Some(answer)]]
                /\ UNCHANGED <<cache, lastSet>>
    /\ UNCHANGED <<got, sets, workload>>

(* ------------------------------------------------------------------ *)
(* Inputs                                                               *)
(* ------------------------------------------------------------------ *)
Sa == <<"a">>
Sb == <<"b">>
Sab == <<"a", ":", "b">>
Sa_b == <<"a", ":", ":", "b">>

\* an arguments object with the given keys
Args1(k1, v1) == k1 :> v1
Args2(k1, v1, k2, v2) == k1 :> v1 @@ k2 :> v2
Args3(k1, v1, k2, v2, k3, v3) == k1 :> v1 @@ k2 :> v2 @@ k3 :> v3

Req(tool_name, arguments) == [tool_name |-> tool_name, arguments |-> arguments]

Workload(reqs, keys, answers) == [reqs |-> reqs, keys |-> keys, answers |-> answers]

BodyH == HtmlBody(1)
\* a result object as PyPI sends it (name, version) and as npm sends it (the
\* same inside "package")
ResultObject(name, version) ==
    [name |-> name, version |-> version,
     package |-> [name |-> name, version |-> version]]

BodyJ == JsonBody(<<Member("version", DStr("1.0"))>>, Some(<<ResultObject("n1", "v1")>>))

\* every way a fetch can end: send() fails, a non-success status, a success
\* status with a body that cannot be read, a success status with a body
Answers ==
    {Transport("timeout"), Response(404, None), Response(200, None),
     Response(200, Some(BodyH)), Response(200, Some(BodyJ))}

\* a non-success status or a success status with a body
PlainAnswers ==
    {Response(404, None), Response(200, Some(BodyH)), Response(200, Some(BodyJ))}

\* crate and item requests whose keys meet: "a:b" is the crate a:b, the crate a
\* at version b, and the item b of the crate a
CrateRequests ==
    {Req("lookup_crate", Args1("crate_name", JStr(Sab))),
     Req("lookup_crate", Args2("crate_name", JStr(Sa), "version", JStr(Sb))),
     Req("lookup_item", Args2("crate_name", JStr(Sa), "item_path", JStr(Sb)))}

\* item requests: a path with and without the crate prefix
ItemRequests ==
    {Req("lookup_item", Args2("crate_name", JStr(Sa), "item_path", JStr(Sb))),
     Req("lookup_item", Args2("crate_name", JStr(Sa), "item_path", JStr(Sa_b)))}

\* an item request with a version and a module path
ItemFlowRequests ==
    {Req("lookup_item", Args3("crate_name", JStr(Sa), "item_path", JStr(Sb \o Sa_b),
                              "version", JStr(Sb)))}

SearchCratesRequests ==
    {Req("search_crates", Args1("query", JStr(Sa))),
     Req("lookup_crate", Args1("crate_name", JStr(Sa)))}

DevDocsRequests ==
    {Req("list_devdocs_documentations", EmptyMap),
     Req("get_devdocs_documentation", Args1("slug", JStr(Sab))),
     Req("get_devdocs_documentation", Args2("slug", JStr(Sa), "entry", JStr(Sb))),
     Req("search_devdocs_documentation", Args2("slug", JStr(Sa), "query", JStr(Sb)))}

NpmRequests ==
    {Req("lookup_npm_package", Args1("package_name", JStr(Sab))),
     Req("lookup_npm_package", Args2("package_name", JStr(Sa), "version", JStr(Sb))),
     Req("search_npm_packages", Args1("query", JStr(Sa)))}

PyPIRequests ==
    {Req("lookup_pypi_package", Args1("package_name", JStr(Sab))),
     Req("lookup_pypi_package", Args2("package_name", JStr(Sa), "version", JStr(Sb))),
     Req("search_pypi_packages", Args1("query", JStr(Sa)))}

GoRequests ==
    {Req("lookup_go_package", Args2("package_name", JStr(Sa), "version", JStr(Sb))),
     Req("search_go_packages", Args1("query", JStr(Sa))),
     Req("lookup_go_symbol", Args2("package_name", JStr(Sa), "symbol_name", JStr(Sb))),
     Req("lookup_go_item", Args2("package_name", JStr(Sa), "item_path", JStr(Sb)))}

Workloads ==
    {Workload(CrateRequests, {Sab}, PlainAnswers),
     Workload(ItemRequests, {Sa \o <<":">> \o Sa_b}, PlainAnswers),
     Workload(ItemFlowRequests, {}, Answers),
     Workload(SearchCratesRequests, {}, PlainAnswers),
     Workload(DevDocsRequests, {}, PlainAnswers),
     Workload(NpmRequests, {}, PlainAnswers),
     Workload(PyPIRequests, {}, PlainAnswers),
     Workload(GoRequests, {}, PlainAnswers)}

CallerValues == {Literal("v1")}

(* ------------------------------------------------------------------ *)
(* Specification: concurrent tool calls on one router                   *)
(* ------------------------------------------------------------------ *)
Init == InitOver(Workloads, NumCalls)

Next ==
    \/ \E k \in workload.keys, v \in CallerValues : CacheSet(k, v)
    \/ \E t \in DOMAIN task, r \in workload.reqs : CallTool(t, r.tool_name, r.arguments)
    \/ \E t \in DOMAIN task, a \in workload.answers : Respond(t, a)

Spec == Init /\ [][Next]_vars

(* ------------------------------------------------------------------ *)
(* Specification: callers reading and writing router.cache directly,    *)
(* next to lookup_crate calls that write it too                         *)
(* ------------------------------------------------------------------ *)
CacheValues == {Literal("v1"), Literal("v2")}

CacheWorkloads ==
    {Workload({Req("lookup_crate", Args1("crate_name", JStr(Sa))),
               Req("lookup_crate", Args2("crate_name", JStr(Sa), "version", JStr(Sb)))},
              {Sa, Sab},
              {Response(404, None), Response(200, Some(BodyH))})}

InitCache == InitOver(CacheWorkloads, NumCalls)

NextCache ==
    \/ \E k \in workload.keys, v \in CacheValues : CacheSet(k, v)
    \/ \E k \in workload.keys : CacheGet(k)
    \/ \E t \in DOMAIN task, r \in workload.reqs : CallTool(t, r.tool_name, r.arguments)
    \/ \E t \in DOMAIN task, a \in workload.answers : Respond(t, a)

SpecCache == InitCache /\ [][NextCache]_vars

(* ------------------------------------------------------------------ *)
(* C1  DocCache: get after set                                          *)
(* ------------------------------------------------------------------ *)
\* C1: a get of key k returns absent when no set on k has completed, and
\* otherwise the value of the most recent completed set on k.
C1_GetReturnsLastSet ==
    got.some => got.val.value = got.val.last_set

\* a get that returned v2 after two caller sets that both went to its key
C1_Witness ==
    /\ got.some
    /\ sets = 2
    /\ DOMAIN lastSet = {got.val.key}
    /\ got.val.value = Some(Literal("v2"))

(* ------------------------------------------------------------------ *)
(* C2  a cached value is returned without a fetch                       *)
(* ------------------------------------------------------------------ *)
\* invocation t is made in this step
Started(t) == task[t].pc = "idle" /\ task'[t].pc # "idle"

\* crate_name[:version] and crate_name[:version]:item_path, the item path
\* taken as the caller wrote it
C2_WrittenKey(tool_name, arguments) ==
    LET crate_name == arguments["crate_name"].s
        version == IF "version" \in DOMAIN arguments
                   THEN <<":">> \o arguments["version"].s ELSE <<>>
    IN  IF tool_name = "lookup_crate"
        THEN crate_name \o version
        ELSE crate_name \o version \o <<":">> \o arguments["item_path"].s

\* the same, the item path taken without a leading "<crate_name>::"
C2_StrippedKey(tool_name, arguments) ==
    LET crate_name == arguments["crate_name"].s
        version == IF "version" \in DOMAIN arguments
                   THEN <<":">> \o arguments["version"].s ELSE <<>>
        prefix == crate_name \o <<":", ":">>
        written == arguments["item_path"].s
        item_path == IF Len(written) >= Len(prefix)
                        /\ SubSeq(written, 1, Len(prefix)) = prefix
                     THEN SubSeq(written, Len(prefix) + 1, Len(written))
                     ELSE written
    IN  IF tool_name = "lookup_crate"
        THEN crate_name \o version
        ELSE crate_name \o version \o <<":">> \o item_path

\* a lookup_crate or lookup_item call made while the cache holds a value under
\* Key returns exactly that value, fetches nothing and leaves the cache as it is
C2_HitStep(Key(_, _)) ==
    \A t \in DOMAIN task :
        (/\ Started(t)
         /\ task'[t].tool_name \in {"lookup_crate", "lookup_item"}
         /\ Key(task'[t].tool_name, task'[t].arguments) \in DOMAIN cache["router"])
        => /\ task'[t].pc = "done"
           /\ task'[t].result =
                  Ok(<<ContentText(cache["router"][Key(task'[t].tool_name,
                                                       task'[t].arguments)])>>)
           /\ task'[t].urls = <<>>
           /\ cache' = cache

\* C2 (as written): when the cache holds a value under crate_name[:version]
\* (lookup_crate) or crate_name[:version]:item_path (lookup_item), the call
\* returns exactly that value, issues no fetch and leaves the cache unchanged.
C2_Original == [][C2_HitStep(C2_WrittenKey)]_vars

\* C2 (amended): the same, with lookup_item's key built from the item path
\* after a leading "<crate_name>::" has been removed from it.
C2_CachedValueReturned == [][C2_HitStep(C2_StrippedKey)]_vars

\* a lookup_item call whose path carries the crate prefix was served from the cache
C2_Witness ==
    \E t \in DOMAIN task :
        /\ task[t].pc = "done"
        /\ task[t].tool_name = "lookup_item"
        /\ task[t].arguments["item_path"] = JStr(Sa_b)
        /\ task[t].urls = <<>>
        /\ task[t].result.ok

(* ------------------------------------------------------------------ *)
(* Specification: one lookup request repeated by overlapping calls      *)
(* ------------------------------------------------------------------ *)
BodyJ2 == JsonBody(<<Member("version", DStr("2.0"))>>, Some(<<ResultObject("n2", "v2")>>))

MemoAnswers ==
    {Response(404, None), Response(200, Some(BodyH)), Response(200, Some(BodyJ)),
     Response(200, Some(BodyJ2))}

LookupTools ==
    {"lookup_crate", "lookup_item", "get_devdocs_documentation",
     "lookup_npm_package", "lookup_pypi_package", "lookup_go_package",
     "lookup_go_symbol", "lookup_go_item"}

MemoRequests ==
    {Req("lookup_crate", Args2("crate_name", JStr(Sa), "version", JStr(Sb))),
     Req("lookup_item", Args2("crate_name", JStr(Sa), "item_path", JStr(Sa_b))),
     Req("get_devdocs_documentation", Args2("slug", JStr(Sa), "entry", JStr(Sb))),
     Req("lookup_npm_package", Args2("package_name", JStr(Sa), "version", JStr(Sb))),
     Req("lookup_pypi_package", Args1("package_name", JStr(Sa))),
     Req("lookup_go_package", Args1("package_name", JStr(Sa))),
     Req("lookup_go_symbol", Args2("package_name", JStr(Sa), "symbol_name", JStr(Sb))),
     Req("lookup_go_item", Args3("package_name", JStr(Sa), "item_path", JStr(Sb),
                                 "version", JStr(Sb)))}

MemoWorkloads == {Workload({r}, {}, MemoAnswers) : r \in MemoRequests}

InitMemo == InitOver(MemoWorkloads, NumMemoCalls)

NextMemo ==
    \/ \E t \in DOMAIN task, r \in workload.reqs : CallTool(t, r.tool_name, r.arguments)
    \/ \E t \in DOMAIN task, a \in workload.answers : Respond(t, a)

SpecMemo == InitMemo /\ [][NextMemo]_vars

(* ------------------------------------------------------------------ *)
(* C3  a lookup that succeeded once is served from the cache            *)
(* ------------------------------------------------------------------ *)
\* invocation u has returned successfully
Succeeded(u) == task[u].pc = "done" /\ task[u].result.ok

\* the provider cache and the key a well-formed request uses
CacheKeyOf(tool_name, arguments) ==
    <<CacheOf(tool_name), KeyOf(TypedCall(tool_name, arguments))>>

\* C3 (as written): for every lookup tool, once a call has succeeded, every
\* later call with the same arguments returns the same text and issues no fetch.
C3_Original ==
    [][\A t, u \in DOMAIN task :
          (/\ Started(t)
           /\ task'[t].tool_name \in LookupTools
           /\ Succeeded(u)
           /\ task[u].tool_name = task'[t].tool_name
           /\ task[u].arguments = task'[t].arguments)
          => /\ task'[t].pc = "done"
             /\ task'[t].urls = <<>>
             /\ task'[t].result = task[u].result]_vars

\* C3 (amended): for every lookup tool, once a call has succeeded, every later
\* call with the same arguments issues no fetch and returns the text the cache
\* holds under its key at that moment, which is the text of an earlier
\* successful call with the same key (the last one that stored).
C3_ServedFromCache ==
    [][\A t \in DOMAIN task :
          (/\ Started(t)
           /\ task'[t].tool_name \in LookupTools
           /\ \E u \in DOMAIN task :
                  /\ Succeeded(u)
                  /\ task[u].tool_name = task'[t].tool_name
                  /\ task[u].arguments = task'[t].arguments)
          => LET ck == CacheKeyOf(task'[t].tool_name, task'[t].arguments)
             IN  /\ task'[t].pc = "done"
                 /\ task'[t].urls = <<>>
                 /\ ck[2].val \in DOMAIN cache[ck[1]]
                 /\ task'[t].result = Ok(<<ContentText(cache[ck[1]][ck[2].val])>>)
                 /\ \E u \in DOMAIN task :
                        /\ Succeeded(u)
                        /\ CacheKeyOf(task[u].tool_name, task[u].arguments) = ck
                        /\ task[u].result = task'[t].result]_vars

\* a third call served from the cache after two overlapping calls with the
\* same arguments both fetched and succeeded
C3_Witness ==
    /\ Succeeded(1) /\ Succeeded(2) /\ Succeeded(3)
    /\ task[1].urls # <<>> /\ task[2].urls # <<>>
    /\ task[3].urls = <<>>
    /\ task[3].tool_name \in LookupTools

(* ------------------------------------------------------------------ *)
(* Specification: call_tool over every shape of the arguments object    *)
(* ------------------------------------------------------------------ *)
Absent == [t |-> "absent"]

\* what a string-typed property may hold: nothing, a string, or any other JSON value
FieldValues ==
    {Absent, JStr(Sa), JInt(0, 7), JNeg(1), JFloat, JBool(TRUE), JNull, JArray, JObject}

\* what "limit" may hold; JInt(1, 0) is 4294967296 and JInt(1, 100) is 4294967396
LimitValues ==
    {Absent, JInt(0, 0), JInt(0, 5), JInt(0, 100), JInt(0, 101), JInt(0, 500),
     JInt(0, 2147483647), JInt(1, 0), JInt(1, 100), JInt(1, 500),
     JNeg(1), JFloat, JStr(Sa), JNull}

\* the arguments objects over the given properties
ArgObjects(properties) ==
    LET choice == [properties -> FieldValues \cup LimitValues]
        fits(m) == \A f \in properties :
                       m[f] \in (IF f = "limit" THEN LimitValues ELSE FieldValues)
    IN  {[k \in {f \in properties : m[f] # Absent} |-> m[k]] :
            m \in {n \in choice : fits(n)}}

UnknownToolNames == {"", "lookup_crates", "Lookup_Crate", "list_tools"}

\* the part of an arguments object outside the given keys
Rest(arguments, keys) == [k \in DOMAIN arguments \ keys |-> arguments[k]]

\* the keys a schema requires
RequiredKeys(schema) == {schema.required[i] : i \in 1..Len(schema.required)}

\* the requests to one tool that agree on the arguments outside `keys`
RequestsLike(tool_name, properties, keys, rest) ==
    {Req(tool_name, o) : o \in {q \in ArgObjects(properties) : Rest(q, keys) = rest}}

\* a workload holds the calls to one tool that differ in the required arguments
ArgsWorkloads ==
    UNION {{Workload(RequestsLike(tool, SchemaOf(tool).properties,
                                  RequiredKeys(SchemaOf(tool)), rest),
                     {}, PlainAnswers) :
               rest \in ArgObjects(SchemaOf(tool).properties
                                   \ RequiredKeys(SchemaOf(tool)))} :
           tool \in RegisteredTools}
    \cup
    {Workload(RequestsLike(n, {"crate_name", "limit"}, {"limit"}, rest),
              {}, PlainAnswers) :
        n \in UnknownToolNames, rest \in ArgObjects({"crate_name"})}

InitArgs == InitOver(ArgsWorkloads, NumArgsCalls)

NextArgs ==
    \/ \E t \in DOMAIN task, r \in workload.reqs : CallTool(t, r.tool_name, r.arguments)
    \/ \E t \in DOMAIN task, a \in workload.answers : Respond(t, a)

SpecArgs == InitArgs /\ [][NextArgs]_vars

(* ------------------------------------------------------------------ *)
(* C4  an unregistered tool name                                        *)
(* ------------------------------------------------------------------ *)
\* invocation t has been made
Made(t) == task[t].pc # "idle"

\* no provider cache has been written
NothingCached == \A p \in Providers : DOMAIN cache[p] = {}

\* C4: a call whose tool name is not a registered tool fails with NotFound, the
\* message containing that name, with no fetch and no cache write.
C4_UnknownToolNotFound ==
    \A t \in DOMAIN task :
        (Made(t) /\ task[t].tool_name \notin RegisteredTools)
        => /\ task[t].pc = "done"
           /\ ~task[t].result.ok
           /\ task[t].result.err.variant = "NotFound"
           /\ task[t].result.err.msg.tool_name = task[t].tool_name
           /\ task[t].urls = <<>>
           /\ NothingCached

\* a call to a misspelt tool, with arguments, has returned
C4_Witness ==
    \E t \in DOMAIN task :
        /\ task[t].pc = "done"
        /\ task[t].tool_name = "lookup_crates"
        /\ task[t].arguments = Args1("crate_name", JStr(Sa))

(* ------------------------------------------------------------------ *)
(* C5, C6  required arguments                                           *)
(* ------------------------------------------------------------------ *)
\* the required fields of the advertised schema, in declared order
Required(tool_name) == SchemaOf(tool_name).required

\* the required fields the arguments leave out
Missing(tool_name, arguments) ==
    {i \in 1..Len(Required(tool_name)) : Required(tool_name)[i] \notin DOMAIN arguments}

\* the required fields the arguments carry with a value that is not a string
Mistyped(tool_name, arguments) ==
    {i \in 1..Len(Required(tool_name)) :
        /\ Required(tool_name)[i] \in DOMAIN arguments
        /\ arguments[Required(tool_name)[i]].t # "string"}

\* invocation t failed with InvalidParameters, before any fetch, naming one of
\* the required fields at the given positions
RejectedNaming(t, positions) ==
    /\ task[t].pc = "done"
    /\ task[t].urls = <<>>
    /\ ~task[t].result.ok
    /\ task[t].result.err.variant = "InvalidParameters"
    /\ \E i \in positions :
           task[t].result.err.msg = MsgRequired(Required(task[t].tool_name)[i])

Least(positions) == CHOOSE i \in positions : \A j \in positions : i <= j

\* C5 (as written): a call to a registered tool that omits a required field
\* fails with InvalidParameters naming a missing required field (so the field
\* itself when exactly one is missing).
C5_Original ==
    \A t \in DOMAIN task :
        (/\ Made(t)
         /\ task[t].tool_name \in RegisteredTools
         /\ Missing(task[t].tool_name, task[t].arguments) # {})
        => RejectedNaming(t, Missing(task[t].tool_name, task[t].arguments))

\* C5 (amended): a call to a registered tool that omits a required field fails
\* with InvalidParameters naming the first required field, in declared order,
\* that is missing or not a string.
C5_MissingFieldRejected ==
    \A t \in DOMAIN task :
        (/\ Made(t)
         /\ task[t].tool_name \in RegisteredTools
         /\ Missing(task[t].tool_name, task[t].arguments) # {})
        => RejectedNaming(t, {Least(Missing(task[t].tool_name, task[t].arguments)
                                    \cup Mistyped(task[t].tool_name, task[t].arguments))})

\* lookup_item was called with crate_name and a version but no item_path
C5_Witness ==
    \E t \in DOMAIN task :
        /\ task[t].pc = "done"
        /\ task[t].tool_name = "lookup_item"
        /\ task[t].arguments = Args2("crate_name", JStr(Sa), "version", JArray)
        /\ task[t].result = Err(InvalidParameters(MsgRequired("item_path")))

\* the arguments without the key f
Without(arguments, f) == [k \in DOMAIN arguments \ {f} |-> arguments[k]]

\* C6 (as written): when a required argument is present but not a string, the
\* call fails with InvalidParameters naming that field, exactly as if the key
\* were absent, and never reaches the provider.
C6_Original ==
    \A t \in DOMAIN task :
        (Made(t) /\ task[t].tool_name \in RegisteredTools)
        => \A i \in Mistyped(task[t].tool_name, task[t].arguments) :
               /\ RejectedNaming(t, {i})
               /\ task[t].result =
                      Dispatch(task[t].tool_name,
                               Without(task[t].arguments, Required(task[t].tool_name)[i]))

\* C6 (amended): when a required argument is present but not a string, the call
\* fails with InvalidParameters exactly as if the key were absent, never
\* reaching the provider; the field named is the first required field, in
\* declared order, that is missing or not a string.
C6_MistypedFieldRejected ==
    \A t \in DOMAIN task :
        (Made(t) /\ task[t].tool_name \in RegisteredTools)
        => \A i \in Mistyped(task[t].tool_name, task[t].arguments) :
               /\ RejectedNaming(t, {Least(Missing(task[t].tool_name, task[t].arguments)
                                          \cup Mistyped(task[t].tool_name, task[t].arguments))})
               /\ task[t].result =
                      Dispatch(task[t].tool_name,
                               Without(task[t].arguments, Required(task[t].tool_name)[i]))

\* lookup_go_symbol was called with a numeric symbol_name
C6_Witness ==
    \E t \in DOMAIN task :
        /\ task[t].pc = "done"
        /\ task[t].tool_name = "lookup_go_symbol"
        /\ task[t].arguments = Args2("package_name", JStr(Sa), "symbol_name", JInt(0, 7))
        /\ task[t].result = Err(InvalidParameters(MsgRequired("symbol_name")))

(* ------------------------------------------------------------------ *)
(* C9  a limit above 100                                                *)
(* ------------------------------------------------------------------ *)
\* a JSON integer greater than 100
Over100(v) == v.t = "number" /\ ~v.neg /\ (v.hi > 0 \/ v.lo > 100)

ends_with(s, suffix) ==
    /\ Len(suffix) <= Len(s)
    /\ SubSeq(s, Len(s) - Len(suffix) + 1, Len(s)) = suffix

\* the URL ends in the number 100
AsksFor100(url) ==
    /\ ends_with(url, <<"1", "0", "0">>)
    /\ Len(url) > 3
    /\ url[Len(url) - 3] \notin {Digit(d) : d \in 0..9}

\* invocation t is a well-formed search with an integer limit above 100
SearchOver100(t) ==
    /\ Made(t)
    /\ task[t].tool_name \in RegisteredTools
    /\ "limit" \in SchemaOf(task[t].tool_name).properties
    /\ "query" \in DOMAIN task[t].arguments
    /\ task[t].arguments["query"].t = "string"
    /\ "limit" \in DOMAIN task[t].arguments
    /\ Over100(task[t].arguments["limit"])

\* C9: for every search tool, a call with an integer limit above 100 behaves as
\* the call with limit = 100: the page size it requests upstream is 100 and the
\* cache key it stores under is the key of limit 100.
C9_LimitOver100ActsAs100 ==
    \A t \in DOMAIN task :
        SearchOver100(t)
        => /\ (/\ task[t].urls # <<>>
               /\ task[t].tool_name # "search_pypi_packages")
              => AsksFor100(task[t].urls[1])
           /\ (/\ Succeeded(t)
               /\ task[t].tool_name # "search_crates")
              => \E k \in DOMAIN cache[CacheOf(task[t].tool_name)] :
                     ends_with(k, <<":", "1", "0", "0">>)

\* search_npm_packages called with limit = 4294967296 has asked upstream for 0 results
C9_Witness ==
    \E t \in DOMAIN task :
        /\ task[t].pc = "fetching"
        /\ task[t].tool_name = "search_npm_packages"
        /\ task[t].arguments = Args2("query", JStr(Sa), "limit", JInt(1, 0))
        /\ ends_with(task[t].urls[1], <<"&size=", "0">>)

(* ------------------------------------------------------------------ *)
(* C7, C8  lookup_item's candidate kinds                                *)
(* ------------------------------------------------------------------ *)
CandidateKinds == <<"struct", "enum", "trait", "fn", "macro">>

\* the URLs of the first k candidates of a lookup_item call, in order
CandidateUrls(arguments, k) ==
    [i \in 1..k |->
        lookup_item_url(arguments["crate_name"].s, arguments["item_path"].s,
                        GetStr(arguments, "version"), CandidateKinds[i])]

\* the fetch of lookup_item invocation t is answered in this step
ItemAnswered(t) ==
    /\ task[t].pc = "fetching"
    /\ task[t].tool_name = "lookup_item"
    /\ task'[t] # task[t]

SuccessStatus(a) == a.kind = "response" /\ a.status >= 200 /\ a.status <= 299

\* the call returns the normalized body of the candidate just answered, stores
\* it under the call's key and attempts no further candidate
ReturnsCandidate(t, a) ==
    /\ a.text.some
    /\ task'[t].pc = "done"
    /\ task'[t].urls = task[t].urls
    /\ task'[t].result = Ok(<<ContentText(parse_html(a.text.val))>>)
    /\ C2_StrippedKey("lookup_item", task[t].arguments) \in DOMAIN cache'["router"]
    /\ cache'["router"][C2_StrippedKey("lookup_item", task[t].arguments)]
           = parse_html(a.text.val)

\* C7 (as written): on a miss lookup_item probes struct, enum, trait, fn, macro
\* in that order; when candidate k is the first whose fetch returns a success
\* status, the result is the normalized body of k, stored under the call's key,
\* candidates 1..k-1 were attempted before it and none after it.
C7_Original ==
    [][\A t \in DOMAIN task :
          ItemAnswered(t)
          => /\ task[t].urls = CandidateUrls(task[t].arguments, Len(task[t].urls))
             /\ SuccessStatus(task'[t].answer.val)
                => ReturnsCandidate(t, task'[t].answer.val)
             /\ (~SuccessStatus(task'[t].answer.val) /\ task'[t].pc = "fetching")
                => task'[t].urls = CandidateUrls(task[t].arguments, Len(task[t].urls) + 1)]_vars

\* C7 (amended): the same when the body of candidate k can be read; when it
\* cannot, the call fails with ExecutionError, nothing is stored and no later
\* candidate is attempted.
C7_FirstSuccessWins ==
    [][\A t \in DOMAIN task :
          ItemAnswered(t)
          => /\ task[t].urls = CandidateUrls(task[t].arguments, Len(task[t].urls))
             /\ (SuccessStatus(task'[t].answer.val) /\ task'[t].answer.val.text.some)
                => ReturnsCandidate(t, task'[t].answer.val)
             /\ (SuccessStatus(task'[t].answer.val) /\ ~task'[t].answer.val.text.some)
                => /\ task'[t].pc = "done"
                   /\ task'[t].urls = task[t].urls
                   /\ ~task'[t].result.ok
                   /\ task'[t].result.err.variant = "ExecutionError"
                   /\ cache' = cache
             /\ (~SuccessStatus(task'[t].answer.val) /\ task'[t].pc = "fetching")
                => task'[t].urls = CandidateUrls(task[t].arguments, Len(task[t].urls) + 1)]_vars

\* a lookup_item call that found its item as the third candidate (trait)
C7_Witness ==
    \E t \in DOMAIN task :
        /\ Succeeded(t)
        /\ task[t].tool_name = "lookup_item"
        /\ Len(task[t].urls) = 3
        /\ task[t].answer.val = Response(200, Some(BodyH))
        /\ task[t].result = Ok(<<ContentText(parse_html(BodyH))>>)

\* C8: when none of the five candidates returns a success status, lookup_item
\* fails with ExecutionError reporting the failure of the last candidate
\* attempted (its status code or its transport error); the cache is unchanged.
C8_LastFailureReported ==
    [][\A t \in DOMAIN task :
          (/\ ItemAnswered(t)
           /\ Len(task[t].urls) = Len(CandidateKinds)
           /\ ~SuccessStatus(task'[t].answer.val))
          => /\ task'[t].pc = "done"
             /\ ~task'[t].result.ok
             /\ task'[t].result.err.variant = "ExecutionError"
             /\ task'[t].result.err.msg.last_error =
                    (IF task'[t].answer.val.kind = "transport"
                     THEN [cause |-> task'[t].answer.val.e]
                     ELSE [status_code |-> task'[t].answer.val.status])
             /\ cache' = cache]_vars

\* a lookup_item call that failed after its fifth candidate could not be reached
C8_Witness ==
    \E t \in DOMAIN task :
        /\ task[t].pc = "done"
        /\ task[t].tool_name = "lookup_item"
        /\ Len(task[t].urls) = 5
        /\ task[t].answer.val = Transport("timeout")
        /\ ~task[t].result.ok
        /\ DOMAIN cache["router"] = {}

(* ------------------------------------------------------------------ *)
(* C10  cache keys tell requests apart                                  *)
(* ------------------------------------------------------------------ *)
\* invocation t passed argument extraction
WellFormed(t) == Made(t) /\ Dispatch(task[t].tool_name, task[t].arguments).ok

\* the typed request of a well-formed invocation
RequestOf(t) == TypedCall(task[t].tool_name, task[t].arguments)

\* the sub-entry a request names: lookup_item's item path counts without a
\* leading "<crate_name>::"
SubEntryOf(c) ==
    IF c.tool = "lookup_item" THEN Some(StripCratePrefix(c.name, c.sub.val)) ELSE c.sub

\* C10: within one provider's cache, identical requests produce the same key,
\* and two requests that differ in version or in sub-entry (the identifier
\* being equal or not) produce different keys.
C10_KeysTellRequestsApart ==
    \A t, u \in DOMAIN task :
        (/\ WellFormed(t) /\ WellFormed(u)
         /\ CacheOf(task[t].tool_name) = CacheOf(task[u].tool_name)
         /\ KeyOf(RequestOf(t)).some /\ KeyOf(RequestOf(u)).some)
        => /\ RequestOf(t) = RequestOf(u) => KeyOf(RequestOf(t)) = KeyOf(RequestOf(u))
           /\ (\/ RequestOf(t).opt # RequestOf(u).opt
               \/ SubEntryOf(RequestOf(t)) # SubEntryOf(RequestOf(u)))
              => KeyOf(RequestOf(t)) # KeyOf(RequestOf(u))

\* a lookup_crate call for crate a at version b was served, without a fetch,
\* the text an earlier call fetched for the crate named a:b
C10_Witness ==
    /\ Succeeded(1) /\ Succeeded(2)
    /\ task[1].tool_name = "lookup_crate"
    /\ task[1].arguments = Args1("crate_name", JStr(Sab))
    /\ task[1].urls # <<>>
    /\ task[2].tool_name = "lookup_crate"
    /\ task[2].arguments = Args2("crate_name", JStr(Sa), "version", JStr(Sb))
    /\ task[2].urls = <<>>
    /\ task[2].result = task[1].result

(* ------------------------------------------------------------------ *)
(* Specification: tasks that share one DocCache through clones.  Each   *)
(* DocCache method awaits the lock, touches the map and drops the guard *)
(* when it returns; a task holds the lock while its pc is "locked".     *)
(*   task[w]  idle (not spawned), waiting (at lock().await of the first *)
(*            operation of `prog`), locked (holding the guard) or done; *)
(*            `results` are the values its gets returned                *)
(* ------------------------------------------------------------------ *)
SetOp(key, value) == [op |-> "set", key |-> key, value |-> value]
GetOp(key) == [op |-> "get", key |-> key]

\* the i-th key and value of worker w: "key<w><i>", "value<w><i>"
WorkerKey(w, i) == <<"k", "e", "y">> \o ToDecimal(w) \o ToDecimal(i)
WorkerValue(w, i) == Literal(<<"value", w, i>>)

RaceKey == <<"c", "o", "n", "c", "u", "r", "r", "e", "n", "t", "_", "t", "e", "s", "t">>
InitialValue == Literal("Initial value")
UpdatedValue == Literal("Updated value")

\* what worker w runs: "disjoint" - every worker sets its own keys;
\* "race" - worker 1 stores the initial value, then the others get the key or
\* set it to the updated value
Program(kind, w) ==
    IF kind = "disjoint"
    THEN [i \in 1..SetsPerWorker |-> SetOp(WorkerKey(w, i), WorkerValue(w, i))]
    ELSE IF w = 1 THEN <<SetOp(RaceKey, InitialValue)>>
    ELSE IF w % 2 = 0 THEN <<GetOp(RaceKey)>>
    ELSE <<SetOp(RaceKey, UpdatedValue)>>

\* the workers that have returned before worker w is spawned
SpawnedAfter(kind, w) == IF kind = "race" /\ w > 1 THEN {1} ELSE {}

CloneWorkloads == {[kind |-> "disjoint"], [kind |-> "race"]}

\* the DocCache lock is free
LockFree == \A w \in DOMAIN task : task[w].pc # "locked"

\* tokio::spawn of worker w
Spawn(w) ==
    /\ task[w].pc = "idle"
    /\ \A v \in SpawnedAfter(workload.kind, w) : task[v].pc = "done"
    /\ task' = [task EXCEPT ![w] =
           [pc |-> "waiting", prog |-> Program(workload.kind, w), results |-> <<>>]]
    /\ UNCHANGED <<cache, lastSet, got, sets, workload>>

\* self.cache.lock().await returns the guard
Acquire(w) ==
    /\ task[w].pc = "waiting"
    /\ LockFree
    /\ task' = [task EXCEPT ![w].pc = "locked"]
    /\ UNCHANGED <<cache, lastSet, got, sets, workload>>

\* the map operation under the guard, and the return that drops the guard
Apply(w) ==
    /\ task[w].pc = "locked"
    /\ LET o == Head(task[w].prog)
           rest == Tail(task[w].prog)
           pc == IF rest = <<>> THEN "done" ELSE "waiting"
       IN  IF o.op = "set"
           THEN /\ cache' = [cache EXCEPT !["router"] = DocCache_set(@, o.key, o.value)]
                /\ lastSet' = MapInsert(lastSet, o.key, o.value)
                /\ task' = [task EXCEPT ![w] = [@ EXCEPT !.pc = pc, !.prog = rest]]
           ELSE /\ task' = [task EXCEPT ![w] =
                       [@ EXCEPT !.pc = pc, !.prog = rest,
                                 !.results = Append(@, DocCache_get(cache["router"], o.key))]]
                /\ UNCHANGED <<cache, lastSet>>
    /\ UNCHANGED <<got, sets, workload>>

InitClones == InitOver(CloneWorkloads, NumWorkers)

NextClones ==
    \/ \E w \in DOMAIN task : Spawn(w)
    \/ \E w \in DOMAIN task : Acquire(w)
    \/ \E w \in DOMAIN task : Apply(w)

SpecClones == InitClones /\ [][NextClones]_vars

(* ------------------------------------------------------------------ *)
(* C11, C12  concurrent use of one DocCache                             *)
(* ------------------------------------------------------------------ *)
\* the number of operations worker w has completed
Completed(w) ==
    IF task[w].pc = "idle" THEN 0
    ELSE Len(Program(workload.kind, w)) - Len(task[w].prog)

\* C11: when concurrent tasks set disjoint keys of one DocCache through clones,
\* under every interleaving every write that has completed is visible to get,
\* so after the tasks complete no write is lost.
C11_NoLostWrites ==
    workload.kind = "disjoint"
    => \A w \in DOMAIN task : \A i \in 1..Completed(w) :
           DocCache_get(cache["router"], WorkerKey(w, i)) = Some(WorkerValue(w, i))

\* all workers have completed their sets on disjoint keys
C11_Witness ==
    /\ workload.kind = "disjoint"
    /\ \A w \in DOMAIN task : task[w].pc = "done"
    /\ Cardinality(DOMAIN cache["router"]) = NumWorkers * SetsPerWorker

\* C12: a get that races with a set on a key that already holds a value returns
\* the old value or the new one, never absent and never anything else.
C12_GetSeesOldOrNew ==
    workload.kind = "race"
    => \A w \in DOMAIN task :
           task[w].pc # "idle"
           => \A i \in 1..Len(task[w].results) :
                  task[w].results[i] \in {Some(InitialValue), Some(UpdatedValue)}

\* the racing set took the lock first and the get returned the updated value
C12_Witness ==
    /\ workload.kind = "race"
    /\ task[2].pc = "done"
    /\ task[2].results = <<Some(UpdatedValue)>>
    /\ task[3].pc = "done"

(* ------------------------------------------------------------------ *)
(* C13  overlapping calls with one key: every one fetches and writes    *)
(* ------------------------------------------------------------------ *)
\* invocation t returns in this step, after a fetch
Returned(t) == task[t].pc = "fetching" /\ task'[t].pc = "done"

\* the text of a successful call_tool result
TextOf(result) == result.val[1].text

\* invocation u is in flight with the cache and key ck
InFlightOn(u, ck) ==
    /\ task[u].pc = "fetching"
    /\ CacheKeyOf(task[u].tool_name, task[u].arguments) = ck

\* C13: fetches are not deduplicated.  A call whose key is not in the cache
\* fetches even while another call with the same key is in flight, and every
\* call that succeeds after fetching stores its own text under the key, so the
\* cache holds the text written last; no other key and no other cache changes.
C13_EachFetchesAndWrites ==
    [][\A t \in DOMAIN task :
          /\ (/\ Started(t)
              /\ Dispatch(task'[t].tool_name, task'[t].arguments).ok
              /\ LET ck == CacheKeyOf(task'[t].tool_name, task'[t].arguments)
                 IN  /\ ck[2].some
                     /\ ck[2].val \notin DOMAIN cache[ck[1]])
             => /\ task'[t].pc = "fetching"
                /\ Len(task'[t].urls) = 1
          /\ (/\ Returned(t)
              /\ task'[t].result.ok
              /\ CacheKeyOf(task[t].tool_name, task[t].arguments)[2].some)
             => LET ck == CacheKeyOf(task[t].tool_name, task[t].arguments)
                IN  /\ DOMAIN cache'[ck[1]] = DOMAIN cache[ck[1]] \cup {ck[2].val}
                    /\ cache'[ck[1]][ck[2].val] = TextOf(task'[t].result)
                    /\ \A k \in DOMAIN cache[ck[1]] \ {ck[2].val} :
                           cache'[ck[1]][k] = cache[ck[1]][k]
                    /\ \A p \in Providers \ {ck[1]} : cache'[p] = cache[p]]_vars

\* two overlapping calls with the same key both fetched and succeeded with
\* different texts; the cache holds the text of the first call, which returned
\* last, next to a key a caller stored
C13_Witness ==
    /\ Succeeded(1) /\ Succeeded(2)
    /\ task[1].tool_name = task[2].tool_name
    /\ task[1].arguments = task[2].arguments
    /\ task[1].urls # <<>> /\ task[2].urls # <<>>
    /\ task[1].result # task[2].result
    /\ LET ck == CacheKeyOf(task[1].tool_name, task[1].arguments)
       IN  /\ ck[2].some
           /\ cache[ck[1]][ck[2].val] = TextOf(task[1].result)
           /\ DOMAIN cache[ck[1]] # {ck[2].val}

(* ------------------------------------------------------------------ *)
(* Specification: tool calls with the cache locks made explicit.  A     *)
(* provider method awaits the lock of its provider's map for the read,  *)
(* drops the guard, fetches, and awaits the lock again for the write.   *)
(*   task[t].pc  idle, get_wait (at lock() of the read), get_held,      *)
(*               fetching, set_wait (at lock() of the write; `pending`  *)
(*               is what the method will return and store), set_held,   *)
(*               done                                                    *)
(* ------------------------------------------------------------------ *)
\* a guard on the map that lives from the method's first lock to its return
LockedPcs_untilReturn == {"get_held", "fetching", "set_wait", "set_held"}

\* where a call holds the guard of its provider's map: from lock() to the end
\* of the statement that reads or writes the map
LockedPcs == {"get_held", "set_held"}

\* call t holds the lock of provider p's map
Holds(t, p) ==
    /\ task[t].pc \in LockedPcs
    /\ CacheOf(task[t].tool_name) = p

LockWaitPcs == {"get_wait", "set_wait"}

Done(tool_name, arguments, urls, answer, result) ==
    [pc |-> "done", tool_name |-> tool_name, arguments |-> arguments,
     urls |-> urls, answer |-> answer, result |-> result]

\* call_tool up to the provider method's first suspension: the cache lock, or
\* the fetch when the method reads no cache
Enter(t, tool_name, arguments) ==
    /\ task[t].pc = "idle"
    /\ t > 1 => task[t - 1].pc # "idle"
    /\ LET d == Dispatch(tool_name, arguments)
       IN  IF ~d.ok
           THEN task' = [task EXCEPT ![t] = Done(tool_name, arguments, <<>>, None, d)]
           ELSE task' = [task EXCEPT ![t] =
                    [pc |-> IF KeyOf(d.val).some THEN "get_wait" ELSE "fetching",
                     tool_name |-> tool_name, arguments |-> arguments,
                     call |-> d.val, stage |-> 1, last_error |-> None,
                     urls |-> IF KeyOf(d.val).some THEN <<>> ELSE <<UrlOf(d.val, 1)>>,
                     answer |-> None, pending |-> None]]
    /\ UNCHANGED <<cache, lastSet, got, sets, workload>>

\* lock() returns the guard to call t
Lock(t) ==
    /\ task[t].pc \in LockWaitPcs
    /\ \A u \in DOMAIN task :
           task[u].pc = "idle" \/ ~Holds(u, CacheOf(task[t].tool_name))
    /\ task' = [task EXCEPT ![t].pc = IF @ = "get_wait" THEN "get_held" ELSE "set_held"]
    /\ UNCHANGED <<cache, lastSet, got, sets, workload>>

\* the read under the guard: return the cached text, or go on to the fetch
ReadCache(t) ==
    /\ task[t].pc = "get_held"
    /\ LET c == task[t].call
           p == CacheOf(c.tool)
           hit == ProviderGet(p, cache[p], KeyOf(c).val)
       IN  IF hit.some
           THEN task' = [task EXCEPT ![t] =
                    Done(task[t].tool_name, task[t].arguments, <<>>, None,
                         Wrap(Ok(hit.val)))]
           ELSE IF BeforeFetch(c).some
           THEN task' = [task EXCEPT ![t] =
                    Done(task[t].tool_name, task[t].arguments, <<>>, None,
                         BeforeFetch(c).val)]
           ELSE task' = [task EXCEPT ![t] =
                    [@ EXCEPT !.pc = "fetching", !.urls = <<UrlOf(c, 1)>>]]
    /\ UNCHANGED <<cache, lastSet, got, sets, workload>>

\* the upstream answers the fetch of call t
Fetched(t, answer) ==
    /\ task[t].pc = "fetching"
    /\ LET c == task[t].call
           r == OnAnswer(c, task[t].stage, task[t].last_error, answer)
       IN  IF r.done
           THEN IF r.write.some
                THEN task' = [task EXCEPT ![t] =
                         [@ EXCEPT !.pc = "set_wait", !.stage = r.stage,
                                   !.answer = Some(answer), !.pending = Some(r)]]
                ELSE task' = [task EXCEPT ![t] =
                         Done(task[t].tool_name, task[t].arguments, task[t].urls,
                              Some(answer), Wrap(r.result))]
           ELSE task' = [task EXCEPT ![t] =
                    [@ EXCEPT !.stage = r.stage, !.last_error = r.last_error,
                              !.urls = Append(@, UrlOf(c, r.stage)),
                              !.answer = Some(answer)]]
    /\ UNCHANGED <<cache, lastSet, got, sets, workload>>

\* the write under the guard, and the method's return
WriteCache(t) ==
    /\ task[t].pc = "set_held"
    /\ LET c == task[t].call
           p == CacheOf(c.tool)
           r == task[t].pending.val
           key == WriteKey(c, r.stage)
       IN  /\ cache' = [cache EXCEPT ![p] = ProviderSet(p, @, key, r.write.val)]
           /\ lastSet' = IF p = "router" THEN MapInsert(lastSet, key, r.write.val)
                         ELSE lastSet
           /\ task' = [task EXCEPT ![t] =
                  Done(task[t].tool_name, task[t].arguments, task[t].urls,
                       task[t].answer, Wrap(r.result))]
    /\ UNCHANGED <<got, sets, workload>>

LockAnswers == {Response(404, None), Response(200, Some(BodyJ))}

LockWorkloads ==
    {Workload({Req("lookup_crate", Args1("crate_name", JStr(Sa))),
               Req("search_crates", Args1("query", JStr(Sa)))}, {}, LockAnswers),
     Workload({Req("lookup_item", Args2("crate_name", JStr(Sa), "item_path", JStr(Sb)))},
              {}, LockAnswers),
     Workload({Req("get_devdocs_documentation", Args1("slug", JStr(Sa)))}, {}, LockAnswers),
     Workload({Req("lookup_npm_package", Args1("package_name", JStr(Sa)))}, {}, LockAnswers),
     Workload({Req("search_pypi_packages", Args1("query", JStr(Sa)))}, {}, LockAnswers),
     Workload({Req("lookup_go_package", Args1("package_name", JStr(Sa))),
               Req("lookup_go_item", Args2("package_name", JStr(Sa), "item_path", JStr(Sb)))},
              {}, LockAnswers)}

InitLock == InitOver(LockWorkloads, NumCalls)

\* the steps of call t once it is made
Step(t) ==
    \/ Lock(t)
    \/ ReadCache(t)
    \/ \E a \in workload.answers : Fetched(t, a)
    \/ WriteCache(t)

NextLock ==
    \/ \E t \in DOMAIN task, r \in workload.reqs : Enter(t, r.tool_name, r.arguments)
    \/ \E t \in DOMAIN task : Lock(t)
    \/ \E t \in DOMAIN task : ReadCache(t)
    \/ \E t \in DOMAIN task, a \in workload.answers : Fetched(t, a)
    \/ \E t \in DOMAIN task : WriteCache(t)

SpecLock == InitLock /\ [][NextLock]_vars

(* ------------------------------------------------------------------ *)
(* C14  locks are held for one map operation; calls never deadlock      *)
(* ------------------------------------------------------------------ *)
\* C14: in every provider a cache lock is held only for a single map read or
\* write, never while a fetch is in flight or awaited, and at most one call
\* holds it; consequently no interleaving of concurrent tool calls deadlocks:
\* every call that has been made and has not returned can take a step, or
\* waits for a lock whose holder can.
C14_LocksAreShortAndNeverDeadlock ==
    \A t \in DOMAIN task :
        task[t].pc \notin {"idle", "done"}
        => LET p == CacheOf(task[t].tool_name)
           IN  /\ Holds(t, p) => task[t].pc \notin {"fetching"} \cup LockWaitPcs
               /\ Holds(t, p) => \A u \in DOMAIN task \ {t} :
                                     task[u].pc = "idle" \/ ~Holds(u, p)
               /\ \/ ENABLED Step(t)
                  \/ \E u \in DOMAIN task \ {t} :
                         /\ task[u].pc # "idle"
                         /\ Holds(u, p)
                         /\ ENABLED Step(u)

\* one call holds the lock for its write while another call of the same
\* provider waits at lock() for its read
C14_Witness ==
    /\ task[1].pc = "set_held"
    /\ task[2].pc = "get_wait"
    /\ CacheOf(task[1].tool_name) = CacheOf(task[2].tool_name)

(* ------------------------------------------------------------------ *)
(* Specification: every tool, one request repeated, every way a fetch   *)
(* can end                                                              *)
(* ------------------------------------------------------------------ *)
AllRequests ==
    CrateRequests \cup ItemFlowRequests \cup SearchCratesRequests \cup DevDocsRequests
        \cup NpmRequests \cup PyPIRequests \cup GoRequests

ToolsWorkloads == {Workload({r}, {}, Answers) : r \in AllRequests}

InitTools == InitOver(ToolsWorkloads, NumCalls)

SpecTools == InitTools /\ [][NextMemo]_vars

(* ------------------------------------------------------------------ *)
(* C15, C16  what call_tool returns for what the provider returned      *)
(* ------------------------------------------------------------------ *)
\* what the provider method of call t returns in this step, in which the
\* answer to its last fetch arrives
ProviderReturns(t) ==
    OnAnswer(task[t].call, task[t].stage, task[t].last_error, task'[t].answer.val).result

\* C15: every successful call_tool returns a list of exactly one content item,
\* a text item whose text is the string the provider method returned (after a
\* fetch), or the string the cache held under the key (on a hit).
C15_OneTextItem ==
    [][\A t \in DOMAIN task :
          (/\ task[t].pc # "done" /\ task'[t].pc = "done"
           /\ task'[t].result.ok)
          => /\ Len(task'[t].result.val) = 1
             /\ task'[t].result.val[1].type = "text"
             /\ DOMAIN task'[t].result.val[1] = {"type", "text"}
             /\ IF Returned(t)
                THEN /\ ProviderReturns(t).ok
                     /\ task'[t].result.val[1].text = ProviderReturns(t).val
                ELSE LET ck == CacheKeyOf(task'[t].tool_name, task'[t].arguments)
                     IN  task'[t].result.val[1].text = cache[ck[1]][ck[2].val]]_vars

\* a call answered from the cache after a call that fetched, both successful
C15_Witness ==
    /\ Succeeded(1) /\ task[1].urls # <<>>
    /\ Succeeded(2) /\ task[2].urls = <<>>
    /\ Len(task[2].result.val) = 1

\* C16: when the provider method fails, call_tool fails with exactly that
\* error, variant and message; a transport failure or a non-success status that
\* ends the call surfaces as ExecutionError, never as InvalidParameters or
\* NotFound.
C16_ProviderErrorUnchanged ==
    [][\A t \in DOMAIN task :
          /\ (Returned(t) /\ ~ProviderReturns(t).ok)
             => /\ task'[t].result = ProviderReturns(t)
                /\ task'[t].result.err.variant = "ExecutionError"
          /\ (Returned(t) /\ ~task'[t].result.ok)
             => /\ ~ProviderReturns(t).ok
                /\ task'[t].result.err.variant = "ExecutionError"]_vars

\* a call failed on a transport failure and another on a non-success status
C16_Witness ==
    /\ task[1].pc = "done" /\ ~task[1].result.ok
    /\ task[1].answer = Some(Transport("timeout"))
    /\ task[2].pc = "done" /\ ~task[2].result.ok
    /\ task[2].answer = Some(Response(404, None))
    /\ task[2].result.err.variant = "ExecutionError"

(* ------------------------------------------------------------------ *)
(* C17  which calls fetch more than once                                *)
(* ------------------------------------------------------------------ *)
\* the answer to a fetch of call t arrives in this step
Answered(t) == task[t].pc = "fetching" /\ task'[t] # task[t]

\* call t goes on to another fetch in this step
FetchesAgain(t) ==
    /\ Answered(t)
    /\ task'[t].pc = "fetching"
    /\ Len(task'[t].urls) = Len(task[t].urls) + 1

\* the fetch just answered did not deliver a body
FetchFailed(a) == ~SuccessStatus(a) \/ ~a.text.some

\* C17 (as written): lookup_item's ordered probe is the only operation that
\* issues more than one upstream fetch in a call; every other tool call issues
\* at most one fetch, and a failed fetch is never followed by another fetch in
\* the same call.
C17_Original ==
    [][\A t \in DOMAIN task :
          Answered(t) /\ task[t].tool_name # "lookup_item"
          => /\ ~FetchesAgain(t)
             /\ task'[t].pc = "done"
             /\ Len(task'[t].urls) = 1]_vars

\* C17 (amended): lookup_item's ordered probe and the HTML fallback of
\* search_pypi_packages are the only operations that issue more than one
\* upstream fetch in a call.  search_pypi_packages fetches a second URL, the
\* HTML search page, exactly when its first fetch returned a non-success status
\* or a readable body that is not JSON, and never a third; after a transport
\* failure or an unreadable body it fails at once.  Every other tool call
\* issues at most one fetch and returns when that fetch is answered.
C17_OnlyProbeAndScrapeRefetch ==
    [][\A t \in DOMAIN task :
          Answered(t) /\ task[t].tool_name # "lookup_item"
          => LET a == task'[t].answer.val
             IN  IF task[t].tool_name = "search_pypi_packages"
                 THEN /\ FetchesAgain(t)
                         <=> /\ Len(task[t].urls) = 1
                             /\ a.kind = "response"
                             /\ \/ ~SuccessStatus(a)
                                \/ a.text.some /\ ~IsJson(a.text.val)
                      /\ FetchesAgain(t)
                         => task'[t].urls[2] = scrape_search_results_url(task[t].call.name)
                      /\ ~FetchesAgain(t) => task'[t].pc = "done"
                      /\ (~FetchesAgain(t) /\ FetchFailed(a)) => ~task'[t].result.ok
                 ELSE /\ ~FetchesAgain(t)
                      /\ task'[t].pc = "done"
                      /\ Len(task'[t].urls) = 1
                      /\ FetchFailed(a) => ~task'[t].result.ok]_vars

\* search_pypi_packages returned the scraped HTML page, its second fetch, after
\* its JSON search delivered no JSON
C17_Witness ==
    \E t \in DOMAIN task :
        /\ Succeeded(t)
        /\ task[t].tool_name = "search_pypi_packages"
        /\ Len(task[t].urls) = 2
        /\ task[t].answer = Some(Response(200, Some(BodyH)))

(* ------------------------------------------------------------------ *)
(* C18  searches are memoized                                           *)
(* ------------------------------------------------------------------ *)
SearchTools ==
    {"search_crates", "search_devdocs_documentation", "search_npm_packages",
     "search_pypi_packages", "search_go_packages"}

\* call t starts a search that call u has already completed successfully
RepeatsSearch(t, u) ==
    /\ Started(t)
    /\ task'[t].tool_name \in SearchTools
    /\ Succeeded(u)
    /\ task[u].tool_name = task'[t].tool_name
    /\ task[u].arguments = task'[t].arguments
    /\ \A v \in DOMAIN task : task[v].pc # "fetching"

\* C18: for every search tool the result of a successful search is memoized
\* under a key made of the query and the clamped limit: a later call with the
\* same search, made while no other call is in flight, returns the same text
\* without an upstream fetch.
C18_SearchMemoized ==
    [][\A t, u \in DOMAIN task :
          RepeatsSearch(t, u)
          => /\ task'[t].pc = "done"
             /\ task'[t].urls = <<>>
             /\ \E v \in DOMAIN task : Succeeded(v) /\ task'[t].result = task[v].result]_vars

\* the same statement for the search tools other than search_crates
C18_OtherSearchesMemoized ==
    [][\A t, u \in DOMAIN task :
          RepeatsSearch(t, u) /\ task'[t].tool_name # "search_crates"
          => /\ task'[t].pc = "done"
             /\ task'[t].urls = <<>>
             /\ \E v \in DOMAIN task : Succeeded(v) /\ task'[t].result = task[v].result]_vars

\* search_crates was called twice with the same arguments and fetched twice,
\* returning two different texts
C18_Witness ==
    /\ Succeeded(1) /\ Succeeded(2)
    /\ task[1].tool_name = "search_crates" /\ task[2].tool_name = "search_crates"
    /\ task[1].arguments = task[2].arguments
    /\ task[1].urls # <<>> /\ task[2].urls # <<>>
    /\ task[1].result # task[2].result
    /\ DOMAIN cache["router"] = {}

(* ------------------------------------------------------------------ *)
(* C19  failures leave the caches alone                                 *)
(* ------------------------------------------------------------------ *)
\* invocation u has returned an error
Failed(u) == task[u].pc = "done" /\ ~task[u].result.ok

\* C19: a tool call that fails (transport failure, non-success status,
\* unreadable body, malformed upstream JSON) leaves every cache unchanged;
\* errors are never cached: every cached text is the text of a call that
\* succeeded; and a later identical call, when no identical call has succeeded
\* meanwhile, issues a fresh fetch.
C19_FailuresNotCached ==
    [][/\ \A t \in DOMAIN task :
              (task[t].pc # "done" /\ task'[t].pc = "done" /\ ~task'[t].result.ok)
              => cache' = cache
       /\ \A p \in Providers : \A k \in DOMAIN cache'[p] :
              \E v \in DOMAIN task :
                  /\ task'[v].pc = "done"
                  /\ task'[v].result.ok
                  /\ TextOf(task'[v].result) = cache'[p][k]
       /\ \A t, u \in DOMAIN task :
              (/\ Started(t)
               /\ Failed(u)
               /\ task[u].tool_name = task'[t].tool_name
               /\ task[u].arguments = task'[t].arguments
               /\ \A v \in DOMAIN task : ~Succeeded(v))
              => /\ task'[t].pc = "fetching"
                 /\ Len(task'[t].urls) = 1]_vars

\* a call has failed on malformed upstream JSON, the caches are empty and a
\* second, identical call is fetching
C19_Witness ==
    /\ Failed(1)
    /\ task[1].result.err = ParseError
    /\ task[2].pc = "fetching"
    /\ task[2].tool_name = task[1].tool_name
    /\ task[2].arguments = task[1].arguments
    /\ NothingCached

(* ------------------------------------------------------------------ *)
(* The resource and prompt surfaces of the router                       *)
(* ------------------------------------------------------------------ *)
\* ResourceError::NotFound, PromptError::NotFound
ResourceNotFound(msg) == [error |-> "ResourceError", variant |-> "NotFound", msg |-> msg]
PromptNotFound(msg) == [error |-> "PromptError", variant |-> "NotFound", msg |-> msg]

\* DocRouter::list_resources: vec![]
list_resources == <<>>

\* a read_resource that returns what it is asked for
read_resource_echo(uri) == Ok(uri)

\* DocRouter::read_resource
read_resource(uri) == Err(ResourceNotFound([text |-> "Resource not found"]))

\* DocRouter::list_prompts: vec![]
list_prompts == <<>>

\* DocRouter::get_prompt: format!("Prompt {} not found", prompt_name)
get_prompt(prompt_name) ==
    Err(PromptNotFound([prefix |-> "Prompt ", prompt_name |-> prompt_name,
                        suffix |-> " not found"]))

\* a client's request on one of the four surfaces; `got` keeps the answer
Surface(op, arg, result) ==
    /\ got' = Some([op |-> op, arg |-> arg, result |-> result])
    /\ UNCHANGED <<cache, task, lastSet, sets, workload>>

ListResources == Surface("list_resources", None, list_resources)
ReadResource(uri) == Surface("read_resource", Some(uri), read_resource(uri))
ListPrompts == Surface("list_prompts", None, list_prompts)
GetPrompt(prompt_name) == Surface("get_prompt", Some(prompt_name), get_prompt(prompt_name))

\* uris and prompt names clients ask for: empty, a cache key, a tool name
Uris == {<<>>, Sa, Sab}
PromptNames == {"", "lookup_crate", "a"}

SurfaceWorkloads ==
    {Workload({Req("lookup_crate", Args1("crate_name", JStr(Sa))),
               Req("search_crates", Args1("query", JStr(Sa)))}, {}, LockAnswers),
     Workload({Req("lookup_npm_package", Args1("package_name", JStr(Sa)))}, {}, LockAnswers)}

InitSurface == InitOver(SurfaceWorkloads, NumCalls)

NextSurface ==
    \/ \E t \in DOMAIN task, r \in workload.reqs : CallTool(t, r.tool_name, r.arguments)
    \/ \E t \in DOMAIN task, a \in workload.answers : Respond(t, a)
    \/ ListResources
    \/ \E uri \in Uris : ReadResource(uri)
    \/ ListPrompts
    \/ \E prompt_name \in PromptNames : GetPrompt(prompt_name)

SpecSurface == InitSurface /\ [][NextSurface]_vars

(* ------------------------------------------------------------------ *)
(* C20  the resource and prompt surfaces are inert                      *)
(* ------------------------------------------------------------------ *)
\* C20: in every state, whatever tool calls were made before, list_resources
\* and list_prompts return the empty list, read_resource fails with NotFound
\* for every uri and get_prompt fails with NotFound, naming the prompt, for
\* every name.
C20_SurfacesInert ==
    got.some
    => LET g == got.val
       IN  CASE g.op \in {"list_resources", "list_prompts"} -> g.result = <<>>
             [] g.op = "read_resource" ->
                    /\ ~g.result.ok
                    /\ g.result.err.error = "ResourceError"
                    /\ g.result.err.variant = "NotFound"
             [] g.op = "get_prompt" ->
                    /\ ~g.result.ok
                    /\ g.result.err.error = "PromptError"
                    /\ g.result.err.variant = "NotFound"
                    /\ g.result.err.msg.prompt_name = g.arg.val

\* read_resource was asked for the key under which a lookup_crate call has
\* stored its text
C20_Witness ==
    /\ got.some
    /\ got.val.op = "read_resource"
    /\ got.val.arg = Some(Sa)
    /\ Sa \in DOMAIN cache["router"]
    /\ Succeeded(1)

(* ------------------------------------------------------------------ *)
(* Specification: list_tools requested between tool calls               *)
(* ------------------------------------------------------------------ *)
\* a client's list_tools request; `got` keeps the answer
ListTools == Surface("list_tools", None, list_tools)

InitRegistry == InitOver(SurfaceWorkloads, NumCalls)

NextRegistry ==
    \/ \E t \in DOMAIN task, r \in workload.reqs : CallTool(t, r.tool_name, r.arguments)
    \/ \E t \in DOMAIN task, a \in workload.answers : Respond(t, a)
    \/ ListTools

SpecRegistry == InitRegistry /\ [][NextRegistry]_vars

(* ------------------------------------------------------------------ *)
(* C21  list_tools returns the fixed registry                           *)
(* ------------------------------------------------------------------ *)
\* the tool names in the order the Tool::new calls are written
DeclaredNames ==
    <<"lookup_crate", "search_crates", "lookup_item",
      "list_devdocs_documentations", "get_devdocs_documentation",
      "search_devdocs_documentation", "lookup_npm_package", "search_npm_packages",
      "lookup_pypi_package", "search_pypi_packages", "lookup_go_package",
      "search_go_packages", "lookup_go_symbol", "lookup_go_item">>

\* C21: list_tools returns the same fixed registry on every call, in
\* declaration order, with pairwise distinct tool names, whatever call_tool
\* invocations were made before and whatever the caches hold.
C21_FixedRegistry ==
    (got.some /\ got.val.op = "list_tools")
    => LET tools == got.val.result
       IN  /\ Len(tools) = Len(DeclaredNames)
           /\ \A i \in 1..Len(tools) : tools[i].name = DeclaredNames[i]
           /\ \A i, j \in 1..Len(tools) : tools[i].name = tools[j].name => i = j

\* list_tools was answered after a tool call had stored a text and another had
\* failed
C21_Witness ==
    /\ got.some /\ got.val.op = "list_tools"
    /\ Succeeded(1) /\ task[1].urls # <<>>
    /\ Failed(2)
    /\ ~NothingCached

(* ------------------------------------------------------------------ *)
(* C22  cache entries are never removed                                 *)
(* ------------------------------------------------------------------ *)
\* C22: in every cache a key that is present remains present after every
\* later operation: the set of cached keys only grows.
C22_KeysOnlyGrow ==
    [][\A p \in Providers : DOMAIN cache[p] \subseteq DOMAIN cache'[p]]_vars

\* a cache holds two keys, written by two calls that fetched
C22_Witness ==
    /\ Succeeded(1) /\ task[1].urls # <<>>
    /\ Succeeded(2) /\ task[2].urls # <<>>
    /\ \E p \in Providers : Cardinality(DOMAIN cache[p]) >= 2

(* ------------------------------------------------------------------ *)
(* Specification: npm and PyPI searches answered with JSON payloads of  *)
(* up to MaxResults result objects                                      *)
(* ------------------------------------------------------------------ *)
\* two complete result objects and one that has neither name nor package
ResultObjects == {ResultObject("n1", "v1"), ResultObject("n2", "v2"), [version |-> "v3"]}

SeqsUpTo(S, n) == UNION {[1..k -> S] : k \in 0..n}

\* 200 responses whose body is a JSON object with a result array
PayloadAnswers ==
    {Response(200, Some(JsonBody(<<>>, Some(objects)))) :
         objects \in SeqsUpTo(ResultObjects, MaxResults)}

RenderRequests ==
    {Req(tool, Args1("query", JStr(Sa))) :
         tool \in {"search_npm_packages", "search_pypi_packages"}}
    \cup {Req(tool, Args2("query", JStr(Sa), "limit", JInt(0, n))) :
              tool \in {"search_npm_packages", "search_pypi_packages"}, n \in 0..2}

RenderWorkloads == {Workload({r}, {}, PayloadAnswers) : r \in RenderRequests}

InitRender == InitOver(RenderWorkloads, NumArgsCalls)

SpecRender == InitRender /\ [][NextMemo]_vars

(* ------------------------------------------------------------------ *)
(* C23  one numbered entry per upstream result                          *)
(* ------------------------------------------------------------------ *)
\* call t rendered a search payload: it fetched and returned Ok
RenderedSearch(t) ==
    /\ task[t].pc = "done"
    /\ task[t].tool_name \in {"search_npm_packages", "search_pypi_packages"}
    /\ task[t].urls # <<>>
    /\ task[t].result.ok

\* the result objects upstream sent to call t
Upstream(t) == task[t].answer.val.text.val.entries.val

\* the numbered entries of the text call t returned (the pieces after the title)
Numbered(t) ==
    LET pieces == TextOf(task[t].result).pieces
    IN  SubSeq(pieces, 2, Len(pieces))

\* the object that carries name and version: the "package" of an npm object,
\* the result object itself for PyPI
Carrier(t, o) == IF task[t].tool_name = "search_npm_packages" THEN o["package"] ELSE o

\* every object of the payload has what its tool reads
WellFormedPayload(t) ==
    \A i \in 1..Len(Upstream(t)) :
        /\ task[t].tool_name = "search_npm_packages" => "package" \in DOMAIN Upstream(t)[i]
        /\ {"name", "version"} \subseteq DOMAIN Carrier(t, Upstream(t)[i])

\* the limit the call asked for, defaulted and clamped
LimitInForce(t) ==
    IF "limit" \in DOMAIN task[t].arguments
    THEN (IF task[t].arguments["limit"].lo < 100 THEN task[t].arguments["limit"].lo ELSE 100)
    ELSE 10

VersionedItemRequests ==
    {Req("lookup_go_item", Args3("package_name", JStr(Sa), "item_path", JStr(Sa),
                                 "version", JStr(Sb))),
     Req("lookup_item", Args3("crate_name", JStr(Sb), "item_path", JStr(Sa),
                              "version", JStr(Sab)))}

KeysWorkloads ==
    {Workload({r}, {}, LockAnswers) :
         r \in AllRequests \cup MemoRequests \cup VersionedItemRequests}

InitKeys == InitOver(KeysWorkloads, NumArgsCalls)

SpecKeys == InitKeys /\ [][NextMemo]_vars

(* ------------------------------------------------------------------ *)
(* C24  the layout of cache keys                                        *)
(* ------------------------------------------------------------------ *)
\* the keys a step adds to provider p's map
NewKeys(p) == DOMAIN cache'[p] \ DOMAIN cache[p]

\* the part of a key before its first ':'
FirstComponent(k) ==
    LET colons == {i \in 1..Len(k) : k[i] = ":"}
    IN  IF colons = {} THEN k
        ELSE SubSeq(k, 1, (CHOOSE i \in colons : \A j \in colons : i <= j) - 1)

\* the namespaces of the providers; the last two stand for the Rust provider
Namespaces == {devdocs, npm, pypi, <<"g", "o">>, <<"r", "u", "s", "t">>,
               <<"c", "r", "a", "t", "e", "s">>}

\* the version and the sub-entry of a typed call, where the tool has them
VersionIn(c) == IF c.tool = "get_devdocs_documentation" THEN None ELSE c.opt
SubEntryIn(c) ==
    CASE c.tool \in {"lookup_item", "lookup_go_symbol", "lookup_go_item"} -> c.sub
      [] c.tool = "get_devdocs_documentation" -> c.opt
      [] OTHER -> None

\* in key k the version v ends before the sub-entry e, which ends the key
VersionBeforeEntry(k, v, e) ==
    /\ ends_with(k, e)
    /\ \E i \in 1..Len(k) :
           /\ i + Len(v) - 1 <= Len(k) - Len(e)
           /\ SubSeq(k, i, i + Len(v) - 1) = v

\* the version, when given, precedes the sub-entry in every key the step adds
VersionFirst(t, k) ==
    LET c == task[t].call
    IN  (VersionIn(c).some /\ SubEntryIn(c).some)
        => VersionBeforeEntry(k, VersionIn(c).val,
                              IF c.tool = "lookup_item"
                              THEN StripCratePrefix(c.name, c.sub.val)
                              ELSE SubEntryIn(c).val)

\* C24 (as written): every cache key a provider writes starts with a provider
\* namespace, carries the version (when given) before the sub-entry, and, for
\* a search, carries the query and the limit after the marker search.
C24_Original ==
    [][\A t \in DOMAIN task :
          Returned(t)
          => \A k \in NewKeys(CacheOf(task[t].tool_name)) :
                 LET c == task[t].call
                 IN  /\ FirstComponent(k) \in Namespaces
                     /\ VersionFirst(t, k)
                     /\ c.tool \in SearchTools
                        => ends_with(k, search \o <<":">>
                                        \o (IF c.sub.some THEN c.sub.val ELSE c.name)
                                        \o <<":">> \o ToDecimal(ClampLimit(c.limit)))]_vars

\* C24 (amended): the keys of the DevDocs, npm, PyPI and Go providers start
\* with the provider's namespace; the keys of the Rust provider (lookup_crate,
\* lookup_item) have no namespace and start with the crate name.  The version,
\* when given, precedes the sub-entry.  A search key of npm, PyPI and Go is
\* namespace:search:query:limit with the clamped limit; the DevDocs search key
\* is devdocs:search:slug:query and carries no limit.
C24_KeyLayout ==
    [][\A t \in DOMAIN task :
          Returned(t)
          => \A k \in NewKeys(CacheOf(task[t].tool_name)) :
                 LET c == task[t].call
                     p == CacheOf(c.tool)
                     ns == CASE p = "devdocs" -> devdocs [] p = "npm" -> npm
                             [] p = "pypi" -> pypi [] OTHER -> <<"g", "o">>
                 IN  /\ IF p = "router" THEN starts_with(k, c.name)
                        ELSE starts_with(k, ns \o <<":">>)
                     /\ VersionFirst(t, k)
                     /\ c.tool \in {"search_npm_packages", "search_pypi_packages",
                                    "search_go_packages"}
                        => k = ns \o <<":">> \o search \o <<":">> \o c.name \o <<":">>
                                 \o ToDecimal(ClampLimit(c.limit))
                     /\ c.tool = "search_devdocs_documentation"
                        => k = ns \o <<":">> \o search \o <<":">> \o c.name \o <<":">>
                                 \o c.sub.val]_vars

\* lookup_go_item with a version has stored its text: the key holds the
\* version before the item
C24_Witness ==
    \E t \in DOMAIN task :
        /\ Succeeded(t)
        /\ task[t].tool_name = "lookup_go_item"
        /\ "version" \in DOMAIN task[t].arguments
        /\ task[t].arguments["version"] # task[t].arguments["item_path"]
        /\ DOMAIN cache["go"] # {}

(* ------------------------------------------------------------------ *)
(* Specification: lookup_item calls for one item written with zero, one  *)
(* and two crate prefixes                                                *)
(* ------------------------------------------------------------------ *)
\* lookup_item(a, p) and lookup_item(a, a::p), with or without a version
PrefixRequests(p, version) ==
    {Req("lookup_item",
         IF version.some
         THEN Args3("crate_name", JStr(Sa), "item_path", JStr(q), "version", JStr(version.val))
         ELSE Args2("crate_name", JStr(Sa), "item_path", JStr(q))) :
         q \in {p, Sa \o <<":", ":">> \o p}}

PrefixWorkloads ==
    {Workload(PrefixRequests(p, v), {}, {Response(404, None), Response(200, Some(BodyH))}) :
         p \in {Sb, Sa_b}, v \in {None, Some(Sb)}}

InitPrefix == InitOver(PrefixWorkloads, NumCalls)

SpecPrefix == InitPrefix /\ [][NextMemo]_vars

(* ------------------------------------------------------------------ *)
(* C25  a leading crate prefix of the item path makes no difference     *)
(* ------------------------------------------------------------------ *)
\* the item path call t was given
PathOf(t) == task'[t].arguments["item_path"].s

\* after this step calls t and u are lookup_item calls for the same crate and
\* version, u's path being t's path behind "<crate_name>::"
Prefixed(t, u) ==
    /\ task'[t].pc # "idle" /\ task'[u].pc # "idle"
    /\ PathOf(u) = task'[t].arguments["crate_name"].s \o <<":", ":">> \o PathOf(t)

\* the candidate URLs of a lookup_item call, in the order they are tried
CandidatesOf(t) ==
    LET c == TypedCall(task'[t].tool_name, task'[t].arguments)
    IN  [i \in 1..Len(item_types) |-> lookup_item_url(c.name, c.sub.val, c.opt, item_types[i])]

\* calls t and u use the same cache key and the same ordered candidate URLs,
\* and a call of one made after the other has succeeded is served its text
SameLookup(t, u) ==
    /\ CacheKeyOf(task'[t].tool_name, task'[t].arguments)
           = CacheKeyOf(task'[u].tool_name, task'[u].arguments)
    /\ CandidatesOf(t) = CandidatesOf(u)
    /\ \A i \in 1..Len(task'[t].urls) :
           i <= Len(task'[u].urls) => task'[t].urls[i] = task'[u].urls[i]
    /\ (Started(u) /\ Succeeded(t) /\ \A v \in DOMAIN task : task[v].pc # "fetching")
       => task'[u].pc = "done" /\ task'[u].urls = <<>>
          /\ \E v \in DOMAIN task : Succeeded(v) /\ task'[u].result = task[v].result
    /\ (Started(t) /\ Succeeded(u) /\ \A v \in DOMAIN task : task[v].pc # "fetching")
       => task'[t].pc = "done" /\ task'[t].urls = <<>>
          /\ \E v \in DOMAIN task : Succeeded(v) /\ task'[t].result = task[v].result

\* C25 (as written): for every crate c, path p and version v,
\* lookup_item(c, c::p, v) uses the same cache key and the same ordered
\* candidate URLs as lookup_item(c, p, v), so the two share cache entries and
\* results.
C25_Original ==
    [][\A t, u \in DOMAIN task : Prefixed(t, u) => SameLookup(t, u)]_vars

\* C25 (amended): the same for every path p that does not itself begin with
\* "c::"; only one leading crate prefix is removed.
C25_PrefixStripped ==
    [][\A t, u \in DOMAIN task :
          (/\ Prefixed(t, u)
           /\ ~starts_with(PathOf(t), task'[t].arguments["crate_name"].s \o <<":", ":">>))
          => SameLookup(t, u)]_vars

\* lookup_item(a, a::b) was served from the cache what lookup_item(a, b)
\* had fetched and stored
C25_Witness ==
    /\ Succeeded(1) /\ task[1].urls # <<>>
    /\ task[1].arguments["item_path"] = JStr(Sb)
    /\ Succeeded(2) /\ task[2].urls = <<>>
    /\ task[2].arguments["item_path"] = JStr(Sa_b)
    /\ task[2].result = task[1].result

(* ------------------------------------------------------------------ *)
(* C26  the HTML fallback of search_pypi_packages                       *)
(* ------------------------------------------------------------------ *)
\* the answer to the JSON search request of call t arrives in this step
JsonSearchAnswered(t) ==
    /\ Answered(t)
    /\ task[t].tool_name = "search_pypi_packages"
    /\ Len(task[t].urls) = 1

\* the answer to the fetch of the HTML search page arrives in this step; the
\* call returns the page's markdown and stores it under the search key, or
\* fails with ExecutionError and stores nothing
ScrapeAnswered(t) ==
    (/\ Answered(t)
     /\ task[t].tool_name = "search_pypi_packages"
     /\ Len(task[t].urls) = 2)
    => LET a == task'[t].answer.val
           ck == CacheKeyOf(task[t].tool_name, task[t].arguments)
       IN  /\ task[t].urls[2] = scrape_search_results_url(task[t].call.name)
           /\ task'[t].pc = "done"
           /\ IF SuccessStatus(a) /\ a.text.some
              THEN /\ task'[t].result = Ok(<<ContentText(parse_html(a.text.val))>>)
                   /\ cache' = [cache EXCEPT ![ck[1]] =
                                   MapInsert(@, ck[2].val, parse_html(a.text.val))]
              ELSE /\ ~task'[t].result.ok
                   /\ task'[t].result.err.variant = "ExecutionError"
                   /\ cache' = cache

\* the call fails at once with ExecutionError and stores nothing
FailsAtOnce(t) ==
    /\ task'[t].pc = "done"
    /\ ~task'[t].result.ok
    /\ task'[t].result.err.variant = "ExecutionError"
    /\ Len(task'[t].urls) = 1
    /\ cache' = cache

\* C26 (as written): search_pypi_packages falls back to scraping the HTML
\* search page whenever the JSON search request fails (transport failure,
\* non-success status, or a body that is not valid JSON); the fallback's
\* normalized text is returned and stored under the same search cache key, and
\* if the fallback fetch also fails the call fails with ExecutionError.
C26_Original ==
    [][\A t \in DOMAIN task :
          /\ JsonSearchAnswered(t)
             => LET a == task'[t].answer.val
                IN  (\/ a.kind = "transport"
                     \/ ~SuccessStatus(a)
                     \/ a.text.some /\ ~IsJson(a.text.val))
                    => FetchesAgain(t)
          /\ ScrapeAnswered(t)]_vars

\* C26 (amended): search_pypi_packages falls back to scraping the HTML search
\* page when the JSON search request is answered with a non-success status or
\* with a readable body that is not valid JSON; on a transport failure, or a
\* body that cannot be read, it fails at once with ExecutionError.  The
\* fallback's normalized text is returned and stored under the same search
\* cache key; if the fallback fetch fails the call fails with ExecutionError.
C26_FallbackOnStatusOrBody ==
    [][\A t \in DOMAIN task :
          /\ JsonSearchAnswered(t)
             => LET a == task'[t].answer.val
                IN  IF a.kind = "transport" \/ (SuccessStatus(a) /\ ~a.text.some)
                    THEN FailsAtOnce(t)
                    ELSE IF ~SuccessStatus(a) \/ ~IsJson(a.text.val)
                    THEN FetchesAgain(t)
                    ELSE task'[t].pc = "done" /\ task'[t].result.ok
          /\ ScrapeAnswered(t)]_vars

\* the JSON search was answered with an HTML body and the scraped page was
\* returned and stored under the search key
C26_Witness ==
    \E t \in DOMAIN task :
        /\ Succeeded(t)
        /\ task[t].tool_name = "search_pypi_packages"
        /\ Len(task[t].urls) = 2
        /\ TextOf(task[t].result) = parse_html(BodyH)
        /\ LET ck == CacheKeyOf(task[t].tool_name, task[t].arguments)
           IN  MapGet(cache[ck[1]], ck[2].val) = Some(parse_html(BodyH))

(* ------------------------------------------------------------------ *)
(* C27  set is an idempotent overwrite with a tight frame               *)
(* ------------------------------------------------------------------ *)
\* a caller's DocCache::set happens in this step
CallerSets == sets' = sets + 1

\* a caller's DocCache::get happens in this step
CallerGets == got' # got

\* C27: set(k, v) changes only the entry for k and leaves every other key's
\* value, and every other cache, unchanged; performing set(k, v) on a cache
\* that already holds v under k, as a second set(k, v) does, leaves the cache
\* as it is; get never changes the cache.
C27_SetFrameAndIdempotence ==
    [][/\ CallerSets
          => \E k \in workload.keys, v \in CacheValues :
                 /\ DOMAIN cache'["router"] = DOMAIN cache["router"] \cup {k}
                 /\ cache'["router"][k] = v
                 /\ \A j \in DOMAIN cache["router"] \ {k} :
                        cache'["router"][j] = cache["router"][j]
                 /\ \A p \in Providers \ {"router"} : cache'[p] = cache[p]
                 /\ DocCache_set(cache'["router"], k, v) = cache'["router"]
                 /\ MapGet(cache["router"], k) = Some(v) => cache' = cache
       /\ CallerGets => cache' = cache]_vars

\* two sets on one key, then a get, with nothing else written
C27_Witness ==
    /\ sets = 2
    /\ DOMAIN cache["router"] = {Sa}
    /\ got.some /\ got.val.key = Sa /\ got.val.value.some
    /\ \A t \in DOMAIN task : task[t].pc = "idle"

(* ------------------------------------------------------------------ *)
(* Specification: overlapping calls of different tools and arguments,   *)
(* on one provider or on two                                            *)
(* ------------------------------------------------------------------ *)
\* a provider method run on its own from an empty cache, the upstream giving
\* `answers` in turn: what call_tool returns, the fetches made, the entry stored
RECURSIVE RunMethod(_, _, _, _, _)
RunMethod(c, stage, last_error, urls, answers) ==
    IF answers = <<>>
    THEN [done |-> FALSE]
    ELSE LET r == OnAnswer(c, stage, last_error, Head(answers))
         IN  IF r.done
             THEN [done |-> Tail(answers) = <<>>,
                   result |-> Wrap(r.result),
                   urls |-> urls,
                   write |-> IF r.write.some
                             THEN Some(<<WriteKey(c, r.stage), r.write.val>>)
                             ELSE None]
             ELSE RunMethod(c, r.stage, r.last_error,
                            Append(urls, UrlOf(c, r.stage)), Tail(answers))

RunAlone(tool_name, arguments, answers) ==
    LET d == Dispatch(tool_name, arguments)
    IN  IF ~d.ok
        THEN [done |-> answers = <<>>, result |-> d, urls |-> <<>>, write |-> None]
        ELSE IF BeforeFetch(d.val).some
        THEN [done |-> answers = <<>>, result |-> BeforeFetch(d.val).val,
              urls |-> <<>>, write |-> None]
        ELSE RunMethod(d.val, 1, None, <<UrlOf(d.val, 1)>>, answers)

ItemAnswers == {Transport("timeout"), Response(404, None), Response(200, Some(BodyH))}

IndependentWorkloads ==
    {Workload({Req("lookup_crate", Args1("crate_name", JStr(Sa))),
               Req("lookup_item", Args2("crate_name", JStr(Sa), "item_path", JStr(Sb)))},
              {}, ItemAnswers),
     Workload({Req("search_crates", Args1("query", JStr(Sa))),
               Req("lookup_crate", Args2("crate_name", JStr(Sa), "version", JStr(Sb)))},
              {}, Answers),
     Workload({Req("list_devdocs_documentations", EmptyMap),
               Req("get_devdocs_documentation", Args1("slug", JStr(Sa)))},
              {}, Answers),
     Workload({Req("lookup_npm_package", Args1("package_name", JStr(Sa))),
               Req("search_npm_packages", Args1("query", JStr(Sa)))},
              {}, Answers),
     Workload({Req("lookup_pypi_package", Args1("package_name", JStr(Sa))),
               Req("search_pypi_packages", Args1("query", JStr(Sa)))},
              {}, Answers),
     Workload({Req("lookup_go_package", Args1("package_name", JStr(Sa))),
               Req("lookup_go_item", Args2("package_name", JStr(Sa), "item_path", JStr(Sb)))},
              {}, Answers),
     Workload({Req("lookup_crate", Args1("crate_name", JStr(Sa))),
               Req("lookup_npm_package", Args1("package_name", JStr(Sa)))},
              {}, Answers)}

InitIndependent == InitOver(IndependentWorkloads, NumCalls)

SpecIndependent == InitIndependent /\ [][NextMemo]_vars

(* ------------------------------------------------------------------ *)
(* C28  invocations with different keys do not affect each other        *)
(* ------------------------------------------------------------------ *)
\* the invocations made so far use pairwise different cache keys
PairwiseDifferentKeys ==
    \A t, u \in DOMAIN task :
        (t # u /\ Made(t) /\ Made(u))
        => CacheKeyOf(task[t].tool_name, task[t].arguments)
               # CacheKeyOf(task[u].tool_name, task[u].arguments)

\* the upstream answers invocation t may have received: one per fetch, the last
\* one being the one it returned on
AnswersTo(t) ==
    {s \in [1..Len(task[t].urls) -> workload.answers] :
        task[t].urls # <<>> => s[Len(s)] = task[t].answer.val}

\* invocation t returned what it returns when run alone on the answers s, made
\* the same fetches, and the cache holds under its key what it stores then
AsAlone(t, s) ==
    LET alone == RunAlone(task[t].tool_name, task[t].arguments, s)
        ck == CacheKeyOf(task[t].tool_name, task[t].arguments)
    IN  /\ alone.done
        /\ task[t].result = alone.result
        /\ task[t].urls = alone.urls
        /\ IF alone.write.some
           THEN /\ ck[2].some
                /\ alone.write.val[1] = ck[2].val
                /\ MapGet(cache[ck[1]], ck[2].val) = Some(alone.write.val[2])
           ELSE ck[2].some => ck[2].val \notin DOMAIN cache[ck[1]]

\* C28: when the invocations made on a router use pairwise different cache
\* keys, then however their steps interleave, each one that has returned has
\* made the fetches, returned the result and left the cache entry that it
\* makes, returns and leaves when it runs alone and receives the same answers.
C28_IndependentInvocations ==
    PairwiseDifferentKeys
    => \A t \in DOMAIN task :
           task[t].pc = "done" => \E s \in AnswersTo(t) : AsAlone(t, s)

\* two invocations with different keys on one provider both fetched and
\* succeeded, and the provider's cache holds the text of each under its key
C28_Witness ==
    /\ PairwiseDifferentKeys
    /\ Succeeded(1) /\ Succeeded(2)
    /\ task[1].urls # <<>> /\ task[2].urls # <<>>
    /\ LET ck1 == CacheKeyOf(task[1].tool_name, task[1].arguments)
           ck2 == CacheKeyOf(task[2].tool_name, task[2].arguments)
       IN  /\ ck1[1] = ck2[1]
           /\ ck1[2].some /\ ck2[2].some
           /\ cache[ck1[1]][ck1[2].val] = TextOf(task[1].result)
           /\ cache[ck2[1]][ck2[2].val] = TextOf(task[2].result)
           /\ TextOf(task[1].result) # TextOf(task[2].result)

(* ------------------------------------------------------------------ *)
(* Specification: a search with no limit next to the same search with   *)
(* limit 10, 9 or null                                                  *)
(* ------------------------------------------------------------------ *)
GivenLimits == {JInt(0, 10), JInt(0, 9), JNull}

AllSearchTools == SearchTools \cup {"search_crates"}

\* the search of `tool` for "a": the arguments it requires, all set to "a"
SearchArgs(tool) == [k \in RequiredKeys(SchemaOf(tool)) |-> JStr(Sa)]

DefaultLimitWorkloads ==
    {Workload({Req(tool, SearchArgs(tool)),
               Req(tool, SearchArgs(tool) @@ "limit" :> l)}, {}, Answers) :
        tool \in AllSearchTools, l \in GivenLimits}

InitDefaultLimit == InitOver(DefaultLimitWorkloads, NumCalls)

SpecDefaultLimit == InitDefaultLimit /\ [][NextMemo]_vars

(* ------------------------------------------------------------------ *)
(* C29  no limit is limit 10                                            *)
(* ------------------------------------------------------------------ *)
\* invocation t gives no limit, invocation u is the same call with limit 10
SameWithTen(t, u) ==
    /\ Made(t) /\ Made(u)
    /\ task[t].tool_name = task[u].tool_name
    /\ task[t].tool_name \in AllSearchTools
    /\ "limit" \notin DOMAIN task[t].arguments
    /\ task[u].arguments = task[t].arguments @@ "limit" :> JInt(0, 10)

\* the outcomes a search can have: one answer, or two for a search that falls
\* back to a second fetch
Outcomes == UNION {[1..n -> workload.answers] : n \in 1..2}

\* C29: for every search tool, a call with no limit argument and the same call
\* with limit = 10 use the same cache and key, request the same URLs (the same
\* page size), and on the same upstream answers return the same result and
\* store the same entry; in a run, the two return the same result when they end
\* on the same answer after as many fetches.
C29_NoLimitIsTen ==
    \A t, u \in DOMAIN task :
        SameWithTen(t, u)
        => /\ CacheKeyOf(task[t].tool_name, task[t].arguments)
                  = CacheKeyOf(task[u].tool_name, task[u].arguments)
           /\ \A stage \in 1..2 :
                  UrlOf(TypedCall(task[t].tool_name, task[t].arguments), stage)
                      = UrlOf(TypedCall(task[u].tool_name, task[u].arguments), stage)
           /\ \A s \in Outcomes :
                  RunAlone(task[t].tool_name, task[t].arguments, s)
                      = RunAlone(task[u].tool_name, task[u].arguments, s)
           /\ (/\ task[t].pc = "done" /\ task[u].pc = "done"
               /\ Len(task[t].urls) = Len(task[u].urls)
               /\ task[t].answer = task[u].answer)
              => /\ task[t].result = task[u].result
                 /\ task[t].urls = task[u].urls

\* a search with no limit fetched and succeeded, and the same search with
\* limit 10, made afterwards, was answered from the cache with the same text
C29_Witness ==
    /\ SameWithTen(1, 2)
    /\ Succeeded(1) /\ Succeeded(2)
    /\ task[1].urls # <<>>
    /\ task[2].urls = <<>>
    /\ task[1].result = task[2].result

(* ------------------------------------------------------------------ *)
(* Specification: a tool call whose fetches are all answered.  A fetch  *)
(* that has been issued stays outstanding until the upstream answers    *)
(* it (a response or a failure of send()), so Respond(t, _) is enabled  *)
(* from the issue on and weak fairness on it says that every issued     *)
(* fetch eventually completes or fails; the rest of the provider method *)
(* runs within the same poll of the call_tool future.                   *)
(* ------------------------------------------------------------------ *)
FetchAnswered(t) == \E a \in workload.answers : Respond(t, a)

FairWorkloads ==
    {Workload({r}, {}, Answers) : r \in AllRequests \cup ItemFlowRequests}

InitFair == InitOver(FairWorkloads, NumArgsCalls)

SpecFair ==
    /\ InitFair /\ [][NextMemo]_vars
    /\ \A t \in 1..NumArgsCalls : WF_vars(FetchAnswered(t))

(* ------------------------------------------------------------------ *)
(* C30  lookup_item makes at most five fetches; every call returns      *)
(* ------------------------------------------------------------------ *)
\* the URL of the candidate of kind `kind` for the item invocation t asks for
CandidateOf(t, kind) ==
    LET c == TypedCall(task[t].tool_name, task[t].arguments)
    IN  lookup_item_url(c.name, c.sub.val, c.opt, kind)

\* a lookup_item call has issued at most five fetches: the i-th fetch is for
\* the i-th candidate kind, and no URL is fetched twice
AtMostFiveFetches ==
    \A t \in DOMAIN task :
        (Made(t) /\ task[t].tool_name = "lookup_item")
        => /\ Len(task[t].urls) <= 5
           /\ \A i \in 1..Len(task[t].urls) :
                  task[t].urls[i] = CandidateOf(t, item_types[i])
           /\ \A i, j \in 1..Len(task[t].urls) :
                  i # j => task[t].urls[i] # task[t].urls[j]

\* C30: every lookup_item call issues at most five upstream fetches, each for
\* another candidate kind; and, every issued fetch being eventually answered
\* or failed, every call_tool invocation that is made eventually returns a
\* result or an error.
C30_BoundedFetchesAndTermination ==
    /\ []AtMostFiveFetches
    /\ \A t \in 1..NumArgsCalls : Made(t) ~> (task[t].pc = "done")

\* a lookup_item call returned an error after all five candidates had failed
C30_Witness ==
    /\ task[1].pc = "done"
    /\ task[1].tool_name = "lookup_item"
    /\ Len(task[1].urls) = 5
    /\ \A i \in 1..5 : task[1].urls[i] = CandidateOf(1, item_types[i])
    /\ ~task[1].result.ok

(* ------------------------------------------------------------------ *)
(* Specification: two operations of one provider, called with           *)
(* arguments that spell each other's key                                *)
(* ------------------------------------------------------------------ *)
Slist == <<"l", "i", "s", "t">>
Sa10 == <<"a", ":", "1", "0">>

CrossWorkloads ==
    {Workload({Req("lookup_item", Args2("crate_name", JStr(Sa), "item_path", JStr(Sb))),
               Req("lookup_crate", Args2("crate_name", JStr(Sa), "version", JStr(Sb)))},
              {}, PlainAnswers),
     Workload({Req("list_devdocs_documentations", EmptyMap),
               Req("get_devdocs_documentation", Args1("slug", JStr(Slist)))},
              {}, PlainAnswers),
     Workload({Req("search_devdocs_documentation", Args2("slug", JStr(Sa), "query", JStr(Sb))),
               Req("get_devdocs_documentation",
                   Args2("slug", JStr(search), "entry", JStr(Sab)))},
              {}, PlainAnswers),
     Workload({Req("search_npm_packages", Args1("query", JStr(Sa))),
               Req("lookup_npm_package",
                   Args2("package_name", JStr(search), "version", JStr(Sa10)))},
              {}, PlainAnswers),
     Workload({Req("search_pypi_packages", Args1("query", JStr(Sa))),
               Req("lookup_pypi_package",
                   Args2("package_name", JStr(search), "version", JStr(Sa10)))},
              {}, PlainAnswers),
     Workload({Req("lookup_npm_package", Args1("package_name", JStr(Sa))),
               Req("search_npm_packages", Args1("query", JStr(Sa)))},
              {}, PlainAnswers)}

InitCross == InitOver(CrossWorkloads, NumCalls)

SpecCross == InitCross /\ [][NextMemo]_vars

(* ------------------------------------------------------------------ *)
(* C31  an entry is served only to the operation that stored it         *)
(* ------------------------------------------------------------------ *)
\* invocation t is answered from the cache in this step
ServedFromCache(t) ==
    /\ Started(t)
    /\ task'[t].pc = "done"
    /\ task'[t].result.ok
    /\ task'[t].urls = <<>>

\* invocation u fetched, succeeded and stored its text
Stored(u) == Succeeded(u) /\ task[u].urls # <<>>

\* C31: a cache entry written by one operation is never returned by a
\* different operation of the same provider: a call answered from the cache
\* returns a text that an earlier call of the same tool stored.
C31_EntriesNotSharedAcrossTools ==
    [][\A t \in DOMAIN task :
          ServedFromCache(t)
          => \E u \in DOMAIN task :
                 /\ Stored(u)
                 /\ task[u].tool_name = task'[t].tool_name
                 /\ task[u].result = task'[t].result]_vars

\* a call was answered from the cache with the text that a call of another
\* tool of the same provider had fetched and stored
C31_Witness ==
    /\ Stored(1)
    /\ task[2].pc = "done" /\ task[2].result.ok /\ task[2].urls = <<>>
    /\ task[1].tool_name # task[2].tool_name
    /\ CacheOf(task[1].tool_name) = CacheOf(task[2].tool_name)
    /\ task[2].result = task[1].result
    /\ task[2].tool_name \in {"get_devdocs_documentation", "lookup_npm_package",
                              "lookup_pypi_package", "lookup_crate"}

(* ------------------------------------------------------------------ *)
(* C32  an optional argument of the wrong type counts as absent         *)
(* ------------------------------------------------------------------ *)
\* the optional arguments of invocation t that hold a value of the wrong JSON
\* type: a version (or entry) that is not a string, a limit that is not a
\* non-negative integer
WrongTypedOptionals(t) ==
    {k \in DOMAIN task[t].arguments :
        \/ /\ ArmOptional(task[t].tool_name) = Some(k)
           /\ task[t].arguments[k].t # "string"
        \/ /\ k = "limit"
           /\ ArmHasLimit(task[t].tool_name)
           /\ ~(task[t].arguments[k].t = "number" /\ ~task[t].arguments[k].neg)}

\* invocation t has gone as a call with `arguments` goes: rejected alike, or
\* handed to the provider method with the same typed arguments and then
\* answered from the entry under that call's key, or fetching that call's URLs
\* and returning and storing what that call does on the same answers
GoesAs(t, arguments) ==
    LET d == Dispatch(task[t].tool_name, arguments)
        p == CacheOf(task[t].tool_name)
    IN  /\ Dispatch(task[t].tool_name, task[t].arguments) = d
        /\ (task[t].pc = "fetching")
           => /\ d.ok
              /\ \A i \in 1..Len(task[t].urls) : task[t].urls[i] = UrlOf(d.val, i)
        /\ (task[t].pc = "done" /\ ~d.ok) => task[t].result = d
        /\ (task[t].pc = "done" /\ d.ok /\ task[t].urls = <<>>)
           => /\ task[t].result.ok
              /\ KeyOf(d.val).some
              /\ KeyOf(d.val).val \in DOMAIN cache[p]
        /\ (task[t].pc = "done" /\ d.ok /\ task[t].urls # <<>>)
           => \E s \in AnswersTo(t) :
                  LET alone == RunAlone(task[t].tool_name, arguments, s)
                  IN  /\ alone.done
                      /\ task[t].result = alone.result
                      /\ task[t].urls = alone.urls
                      /\ alone.write.some => alone.write.val[1] \in DOMAIN cache[p]

Sempty == <<>>
Ssep == <<":", ":">>

ValidateWorkloads ==
    {Workload({Req("lookup_crate", EmptyMap),
               Req("lookup_crate", Args1("crate_name", JInt(0, 7))),
               Req("lookup_crates", Args1("crate_name", JStr(Sa))),
               Req("lookup_crate", Args1("crate_name", JStr(Sa)))},
              {}, LockAnswers),
     Workload({Req("lookup_item", Args1("crate_name", JStr(Sa))),
               Req("lookup_item", Args2("crate_name", JStr(Sa), "item_path", JStr(Sempty))),
               Req("lookup_item", Args2("crate_name", JStr(Sa), "item_path", JStr(Sa \o Ssep))),
               Req("lookup_item", Args2("crate_name", JStr(Sa), "item_path", JStr(Ssep)))},
              {}, LockAnswers),
     Workload({Req("search_devdocs_documentation", Args1("slug", JStr(Sa))),
               Req("get_devdocs_documentation", Args1("slug", JStr(Sa)))},
              {}, LockAnswers),
     Workload({Req("lookup_npm_package", Args1("version", JStr(Sb))),
               Req("search_npm_packages", Args1("limit", JInt(0, 5))),
               Req("lookup_npm_package", Args1("package_name", JStr(Sa)))},
              {}, LockAnswers),
     Workload({Req("search_pypi_packages", Args1("query", JNull)),
               Req("search_pypi_packages", Args1("query", JStr(Sa)))},
              {}, LockAnswers),
     Workload({Req("lookup_go_symbol", Args1("package_name", JStr(Sa))),
               Req("", EmptyMap),
               Req("lookup_go_item", Args2("package_name", JStr(Sa), "item_path", JStr(Sb)))},
              {}, LockAnswers)}

InitValidate == InitOver(ValidateWorkloads, NumCalls)

SpecValidate == InitValidate /\ [][NextLock]_vars

(* ------------------------------------------------------------------ *)
(* C33  validation precedes every effect                                *)
(* ------------------------------------------------------------------ *)
\* the result is an InvalidParameters or a NotFound error
Rejection(result) ==
    /\ ~result.ok
    /\ result.err.variant \in {"InvalidParameters", "NotFound"}

\* C33: a call_tool invocation that fails with InvalidParameters or NotFound
\* fails in its first step, before it has waited for or held a cache lock, read
\* a cache or issued a fetch, and that step leaves every cache unchanged.
C33_RejectedBeforeAnyEffect ==
    [][\A t \in DOMAIN task :
          (task[t].pc # "done" /\ task'[t].pc = "done" /\ Rejection(task'[t].result))
          => /\ task[t].pc = "idle"
             /\ task'[t].urls = <<>>
             /\ task'[t].answer = None
             /\ cache' = cache]_vars

\* a lookup_item call with an empty item path fetched and stored its text, and
\* a later lookup_item call without item_path was rejected without a fetch
C33_Witness ==
    /\ Succeeded(1) /\ task[1].urls # <<>>
    /\ task[1].tool_name = "lookup_item"
    /\ task[1].arguments["item_path"] = JStr(Sempty)
    /\ task[2].pc = "done" /\ Rejection(task[2].result)
    /\ task[2].result = Err(InvalidParameters(MsgRequired("item_path")))
    /\ task[2].urls = <<>>
    /\ DOMAIN cache["router"] = {lookup_item_cache_key(Sa, Sempty, None)}

(* ------------------------------------------------------------------ *)
(* C34  the first invalid required argument is the one reported         *)
(* ------------------------------------------------------------------ *)
\* the positions, in the declared order of the required fields, of those that
\* invocation t leaves out or gives with a value that is not a string
Invalid(t) ==
    Missing(task[t].tool_name, task[t].arguments)
        \cup Mistyped(task[t].tool_name, task[t].arguments)

\* C34: required arguments are validated in declaration order and the first
\* failure wins: when several required fields of a tool are missing or
\* mistyped, the call fails with InvalidParameters naming the first of them in
\* declared order, and no later one.
C34_FirstInvalidFieldNamed ==
    \A t \in DOMAIN task :
        (/\ Made(t)
         /\ task[t].tool_name \in RegisteredTools
         /\ Cardinality(Invalid(t)) >= 2)
        => /\ task[t].pc = "done"
           /\ task[t].result =
                  Err(InvalidParameters(MsgRequired(Required(task[t].tool_name)[Least(Invalid(t))])))
           /\ \A j \in Invalid(t) \ {Least(Invalid(t))} :
                  task[t].result.err.msg # MsgRequired(Required(task[t].tool_name)[j])

\* lookup_item was called with no arguments and named crate_name
C34_Witness ==
    \E t \in DOMAIN task :
        /\ task[t].pc = "done"
        /\ task[t].tool_name = "lookup_item"
        /\ task[t].arguments = EmptyMap
        /\ task[t].result = Err(InvalidParameters(MsgRequired("crate_name")))

(* ------------------------------------------------------------------ *)
(* C35  list_tools and call_tool agree                                  *)
(* ------------------------------------------------------------------ *)
\* invocation t has failed with an error of the given variant
FailedWith(t, variant) ==
    /\ task[t].pc = "done"
    /\ ~task[t].result.ok
    /\ task[t].result.err.variant = variant

\* the required fields of the tool's schema that invocation t leaves out
LeftOut(t) == RequiredKeys(SchemaOf(task[t].tool_name)) \ DOMAIN task[t].arguments

\* C35: a tool name is listed by list_tools if and only if call_tool with that
\* name does not fail with NotFound; and for a listed tool the fields of the
\* schema's required list are exactly the argument keys whose absence makes
\* call_tool fail with InvalidParameters: a call whose arguments are all of the
\* right type fails so if and only if it leaves out a required field, and the
\* field named is then one of the schema's required list.
C35_RegistryMatchesDispatcher ==
    \A t \in DOMAIN task :
        Made(t)
        => /\ task[t].tool_name \in RegisteredTools <=> ~FailedWith(t, "NotFound")
           /\ (/\ task[t].tool_name \in RegisteredTools
               /\ Mistyped(task[t].tool_name, task[t].arguments) = {})
              => /\ FailedWith(t, "InvalidParameters") <=> LeftOut(t) # {}
                 /\ FailedWith(t, "InvalidParameters")
                    => \E k \in LeftOut(t) : task[t].result.err.msg = MsgRequired(k)

\* the listed tool search_devdocs_documentation, called without its required
\* query and with nothing else wrong, has failed naming query
C35_Witness ==
    \E t \in DOMAIN task :
        /\ Made(t)
        /\ task[t].tool_name = "search_devdocs_documentation"
        /\ task[t].arguments = Args1("slug", JStr(Sa))
        /\ FailedWith(t, "InvalidParameters")
        /\ task[t].result.err.msg = MsgRequired("query")

(* ------------------------------------------------------------------ *)
(* Specification: several routers and their clones.  A DocRouter holds, *)
(* for each provider, an Arc to that provider's map; DocRouter::new     *)
(* allocates five new maps, #[derive(Clone)] copies the five Arcs.      *)
(* Here `cache` is the heap, a map for every Arc, and workload.handles  *)
(* are the router values the callers hold.                              *)
(* ------------------------------------------------------------------ *)
NumRouters == 2

\* the Arcs of the n-th router built: Arc::new(Mutex::new(HashMap::new())) per provider
Arc(n, provider) == <<n, provider>>

\* a constructor whose maps are process-wide
DocRouter_new_global(n) == [p \in Providers |-> Arc(1, p)]

\* DocRouter::new, the n-th time it is called
DocRouter_new(n) == [p \in Providers |-> Arc(n, p)]

\* DocRouter::clone: every field cloned, an Arc clone pointing to the same map
DocRouter_clone(router) == [p \in Providers |-> router[p]]

\* a router value a caller holds, with the DocRouter::new call it descends from
Handle(built, router) == [built |-> built, router |-> router]

\* the router values callers hold: the first router, a clone of it, and the
\* routers built after it
Handles ==
    <<Handle(1, DocRouter_new(1)), Handle(1, DocRouter_clone(DocRouter_new(1)))>>
        \o [n \in 1..(NumRouters - 1) |-> Handle(n + 1, DocRouter_new(n + 1))]

Heap == {Arc(n, p) : n \in 1..NumRouters, p \in Providers}

\* call_tool on the router value `handle`: `let this = self.clone()`, argument
\* extraction, the provider method's cache lookup on this router's map and, on
\* a miss, the issue of its first fetch
CallToolOn(handle, t, tool_name, arguments) ==
    /\ task[t].pc = "idle"
    /\ t > 1 => task[t - 1].pc # "idle"
    /\ LET this == DocRouter_clone(handle.router)
           d == Dispatch(tool_name, arguments)
           finished(result) ==
               [pc |-> "done", tool_name |-> tool_name, arguments |-> arguments,
                built |-> handle.built, this |-> this, urls |-> <<>>, answer |-> None, result |-> result]
       IN  IF ~d.ok
           THEN task' = [task EXCEPT ![t] = finished(d)]
           ELSE LET c == d.val
                    key == KeyOf(c)
                    hit == IF key.some
                           THEN ProviderGet(CacheOf(c.tool), cache[this[CacheOf(c.tool)]],
                                            key.val)
                           ELSE None
                IN  IF hit.some
                    THEN task' = [task EXCEPT ![t] = finished(Wrap(Ok(hit.val)))]
                    ELSE IF BeforeFetch(c).some
                    THEN task' = [task EXCEPT ![t] = finished(BeforeFetch(c).val)]
                    ELSE task' = [task EXCEPT ![t] =
                             [pc |-> "fetching", tool_name |-> tool_name,
                              arguments |-> arguments, built |-> handle.built,
                              this |-> this, call |-> c,
                              stage |-> 1, last_error |-> None,
                              urls |-> <<UrlOf(c, 1)>>, answer |-> None]]
    /\ UNCHANGED <<cache, lastSet, got, sets, workload>>

\* the upstream answers the fetch task t awaits; the provider method runs on to
\* its next fetch or to its return, storing in the map of the router it runs on
RespondOn(t, answer) ==
    /\ task[t].pc = "fetching"
    /\ LET c == task[t].call
           r == OnAnswer(c, task[t].stage, task[t].last_error, answer)
           p == CacheOf(c.tool)
       IN  IF r.done
           THEN /\ task' = [task EXCEPT ![t] =
                        [pc |-> "done", tool_name |-> task[t].tool_name,
                         arguments |-> task[t].arguments, built |-> task[t].built,
                         this |-> task[t].this,
                         urls |-> task[t].urls, answer |-> Some(answer),
                         result |-> Wrap(r.result)]]
                /\ IF r.write.some
                   THEN cache' = [cache EXCEPT ![task[t].this[p]] =
                                      ProviderSet(p, @, WriteKey(c, r.stage), r.write.val)]
                   ELSE UNCHANGED cache
           ELSE /\ task' = [task EXCEPT ![t] =
                        [@ EXCEPT !.stage = r.stage, !.last_error = r.last_error,
                                  !.urls = Append(@, UrlOf(c, r.stage)),
                                  !.answer = Some(answer)]]
                /\ UNCHANGED cache
    /\ UNCHANGED <<lastSet, got, sets, workload>>

RoutersWorkloads ==
    {Workload({r}, {}, LockAnswers) :
        r \in {Req("lookup_crate", Args1("crate_name", JStr(Sa))),
               Req("get_devdocs_documentation", Args1("slug", JStr(Sa))),
               Req("lookup_npm_package", Args1("package_name", JStr(Sa))),
               Req("search_pypi_packages", Args1("query", JStr(Sa))),
               Req("lookup_go_package", Args1("package_name", JStr(Sa)))}}

InitRouters ==
    /\ cache = [a \in Heap |-> EmptyMap]
    /\ task = [t \in 1..NumMemoCalls |-> Idle]
    /\ lastSet = EmptyMap
    /\ got = None
    /\ sets = 0
    /\ workload \in RoutersWorkloads

NextRouters ==
    \/ \E h \in 1..Len(Handles), t \in DOMAIN task, r \in workload.reqs :
           CallToolOn(Handles[h], t, r.tool_name, r.arguments)
    \/ \E t \in DOMAIN task, a \in workload.answers : RespondOn(t, a)

SpecRouters == InitRouters /\ [][NextRouters]_vars

(* ------------------------------------------------------------------ *)
(* C36  clones share the caches, separately built routers do not        *)
(* ------------------------------------------------------------------ *)
\* the map invocation t reads and writes
MapOf(t) == task[t].this[CacheOf(task[t].tool_name)]

\* invocations t (after this step) and u run on the same router or on clones of it
SameRouter(t, u) == task'[t].built = task[u].built

\* C36: a value cached by one invocation is visible to every later invocation
\* made on the same router or on a clone of it, for every provider's cache: a
\* call with the same request is answered from the cache without a fetch.  Two
\* routers built by separate DocRouter::new calls never see each other's
\* entries: a call is answered from the cache only if a call on the same router
\* or a clone of it has stored a text, and a call stores only in the maps of
\* the router it was made on.
C36_ClonesShareRoutersDoNot ==
    [][\A t \in DOMAIN task :
          /\ (/\ Started(t)
              /\ \E u \in DOMAIN task :
                     /\ Stored(u)
                     /\ SameRouter(t, u)
                     /\ task[u].tool_name = task'[t].tool_name
                     /\ task[u].arguments = task'[t].arguments)
             => /\ task'[t].pc = "done"
                /\ task'[t].result.ok
                /\ task'[t].urls = <<>>
          /\ ServedFromCache(t)
             => \E u \in DOMAIN task : Stored(u) /\ SameRouter(t, u)
          /\ Returned(t)
             => \A a \in Heap :
                    a # Arc(task[t].built, CacheOf(task[t].tool_name))
                    => cache'[a] = cache[a]]_vars

\* a call on the first router fetched and stored its text, a later call on the
\* clone was answered from the cache, and a still later call on the second
\* router, finding its own map empty, is fetching
C36_Witness ==
    /\ Stored(1) /\ task[1].built = 1
    /\ Succeeded(2) /\ task[2].urls = <<>> /\ task[2].built = 1
    /\ task[2].result = task[1].result
    /\ task[3].pc = "fetching" /\ task[3].built = 2
    /\ cache[MapOf(3)] = EmptyMap
    /\ cache[MapOf(1)] # EmptyMap
    /\ MapOf(1) = MapOf(2) /\ MapOf(1) # MapOf(3)

(* ------------------------------------------------------------------ *)
(* Specification: lookup_go_symbol and lookup_go_item called for the    *)
(* same and for different symbols                                       *)
(* ------------------------------------------------------------------ *)
GoItemWorkloads ==
    {Workload({Req("lookup_go_symbol", Args2("package_name", JStr(Sa), "symbol_name", JStr(Sb))),
               Req("lookup_go_item", Args2("package_name", JStr(Sa), "item_path", JStr(Sb)))},
              {}, Answers),
     Workload({Req("lookup_go_symbol", Args3("package_name", JStr(Sa), "symbol_name", JStr(Sb),
                                             "version", JStr(Sab))),
               Req("lookup_go_item", Args3("package_name", JStr(Sa), "item_path", JStr(Sb),
                                           "version", JStr(Sab)))},
              {}, Answers),
     Workload({Req("lookup_go_symbol", Args2("package_name", JStr(Sa), "symbol_name", JStr(Sb))),
               Req("lookup_go_item", Args2("package_name", JStr(Sa), "item_path", JStr(Sa))),
               Req("lookup_go_item", Args3("package_name", JStr(Sa), "item_path", JStr(Sb),
                                           "version", JInt(0, 7)))},
              {}, PlainAnswers)}

InitGoItem == InitOver(GoItemWorkloads, NumCalls)

SpecGoItem == InitGoItem /\ [][NextMemo]_vars

(* ------------------------------------------------------------------ *)
(* C37  lookup_go_symbol is lookup_go_item                              *)
(* ------------------------------------------------------------------ *)
\* t is a lookup_go_symbol call (in the state `tasks`) and u a lookup_go_item
\* call, or the other way round, with equal package_name and version and
\* symbol_name equal to item_path
Twins(tasks, t, u) ==
    LET sym == IF tasks[t].tool_name = "lookup_go_symbol" THEN tasks[t] ELSE task[u]
        item == IF tasks[t].tool_name = "lookup_go_symbol" THEN task[u] ELSE tasks[t]
    IN  /\ tasks[t].pc # "idle" /\ Made(u)
        /\ sym.tool_name = "lookup_go_symbol"
        /\ item.tool_name = "lookup_go_item"
        /\ GetStr(sym.arguments, "package_name").some
        /\ GetStr(sym.arguments, "symbol_name").some
        /\ GetStr(sym.arguments, "package_name") = GetStr(item.arguments, "package_name")
        /\ GetStr(sym.arguments, "symbol_name") = GetStr(item.arguments, "item_path")
        /\ GetStr(sym.arguments, "version") = GetStr(item.arguments, "version")

\* twins use the same cache, key and URL, and on the same upstream answer
\* return the same result and store the same entry
TwinsAlike ==
    \A t, u \in DOMAIN task :
        Twins(task, t, u)
        => /\ CacheKeyOf(task[t].tool_name, task[t].arguments)
                  = CacheKeyOf(task[u].tool_name, task[u].arguments)
           /\ UrlOf(TypedCall(task[t].tool_name, task[t].arguments), 1)
                  = UrlOf(TypedCall(task[u].tool_name, task[u].arguments), 1)
           /\ \A a \in workload.answers :
                  RunAlone(task[t].tool_name, task[t].arguments, <<a>>)
                      = RunAlone(task[u].tool_name, task[u].arguments, <<a>>)
           /\ (/\ task[t].pc = "done" /\ task[u].pc = "done"
               /\ task[t].urls # <<>> /\ task[u].urls # <<>>
               /\ task[t].answer = task[u].answer)
              => task[t].result = task[u].result

\* a call whose twin has stored its text is answered from the cache
TwinServed ==
    \A t, u \in DOMAIN task :
        (Started(t) /\ Twins(task', t, u) /\ Stored(u))
        => /\ task'[t].pc = "done"
           /\ task'[t].urls = <<>>
           /\ task'[t].result.ok
           /\ TextOf(task'[t].result)
                  = cache[CacheOf(task[u].tool_name)]
                         [CacheKeyOf(task[u].tool_name, task[u].arguments)[2].val]

\* C37: lookup_go_symbol and lookup_go_item are the same operation under two
\* names: for equal package_name and version and symbol_name equal to
\* item_path they use the same cache key and the same upstream URL, return
\* equal results on equal upstream answers, and an entry cached through one is
\* returned by the other.
C37_SymbolIsItem == []TwinsAlike /\ [][TwinServed]_vars

\* lookup_go_item fetched and stored the text for b of package a at a version,
\* and lookup_go_symbol for the same symbol was answered with it from the cache
C37_Witness ==
    /\ Stored(1) /\ task[1].tool_name = "lookup_go_item"
    /\ Succeeded(2) /\ task[2].tool_name = "lookup_go_symbol"
    /\ task[2].urls = <<>>
    /\ task[2].result = task[1].result
    /\ GetStr(task[1].arguments, "version") = Some(Sab)
    /\ GetStr(task[2].arguments, "version") = Some(Sab)

(* ------------------------------------------------------------------ *)
(* C38  the effective limit of a search                                 *)
(* ------------------------------------------------------------------ *)
\* the tools whose arm reads a limit
LimitTools ==
    {"search_crates", "search_npm_packages", "search_pypi_packages", "search_go_packages"}

\* the caller's limit is a JSON integer within 0..100
IntegerInRange(v) == v.some /\ v.val.t = "number" /\ ~v.val.neg /\ v.val.hi = 0 /\ v.val.lo \in 0..100

\* the cache key of a search for `query` with the effective limit n
SearchKeyWith(tool, query, n) ==
    CASE tool = "search_npm_packages" -> npm \o <<":">> \o search \o <<":">> \o query
                                             \o <<":">> \o ToDecimal(n)
      [] tool = "search_pypi_packages" -> pypi \o <<":">> \o search \o <<":">> \o query
                                              \o <<":">> \o ToDecimal(n)
      [] tool = "search_go_packages" -> <<"g", "o">> \o <<":">> \o search \o <<":">> \o query
                                            \o <<":">> \o ToDecimal(n)

\* the request of a search for `query` with the effective limit n
SearchUrlWith(tool, query, n) ==
    CASE tool = "search_crates" -> <<"https://crates.io/api/v1/crates?q=">> \o query
                                       \o <<"&per_page=">> \o ToDecimal(n)
      [] tool = "search_npm_packages" -> <<"https://registry.npmjs.org/-/v1/search?text=">>
                                             \o query \o <<"&size=">> \o ToDecimal(n)
      [] tool = "search_go_packages" -> <<"https://pkg.go.dev/search?q=">> \o query
                                            \o <<"&limit=">> \o ToDecimal(n)

\* the call t, a search with a query, uses n as its limit: in the key it
\* reads and writes and in the request it sends
UsesLimit(t, n) ==
    LET tool == task[t].tool_name
        c == TypedCall(tool, task[t].arguments)
    IN  /\ tool # "search_crates"
           => /\ KeyOf(c) = Some(SearchKeyWith(tool, c.name, n))
              /\ Stored(t) => SearchKeyWith(tool, c.name, n) \in DOMAIN cache[CacheOf(tool)]
        /\ tool # "search_pypi_packages"
           => /\ UrlOf(c, 1) = SearchUrlWith(tool, c.name, n)
              /\ task[t].urls # <<>> => task[t].urls[1] = SearchUrlWith(tool, c.name, n)

\* C38: the effective limit used in a search's cache key and upstream request
\* is within 0..100 for every caller-supplied value, and equals the caller's
\* value whenever that value is an integer within 0..100; a limit of 0 is
\* passed through as 0.
C38_EffectiveLimitInRange ==
    \A t \in DOMAIN task :
        (/\ Made(t) /\ task[t].tool_name \in LimitTools
         /\ Dispatch(task[t].tool_name, task[t].arguments).ok)
        => \E n \in 0..100 :
               /\ UsesLimit(t, n)
               /\ LET v == ArgGet(task[t].arguments, "limit")
                  IN  IntegerInRange(v) => n = v.val.lo

\* search_npm_packages was called with limit 0 and asks the registry for
\* size=0
C38_Witness ==
    /\ task[1].pc = "fetching" /\ task[1].tool_name = "search_npm_packages"
    /\ ArgGet(task[1].arguments, "limit") = Some(JInt(0, 0))
    /\ ends_with(task[1].urls[1], <<"&size=">> \o ToDecimal(0))

(* ------------------------------------------------------------------ *)
(* Specification: lookup_npm_package and lookup_pypi_package answered   *)
(* with documents that have any subset of the fields the renderers read *)
(* ------------------------------------------------------------------ *)
\* the members a registry document can have, in the order the object yields them
NpmMembers ==
    <<Member("dependencies", DObj(<<Member("dep", DStr("^1")), Member("odd", DNum)>>)),
      Member("description", DStr("a description")),
      Member("devDependencies", DObj(<<Member("dev", DStr("^2"))>>)),
      Member("homepage", DStr("home")),
      Member("keywords", DArr(<<DStr("k1"), DNum, DStr("k2")>>)),
      Member("license", DStr("MIT")),
      Member("readme", DStr("readme")),
      Member("repository", DObj(<<Member("url", DStr("repo"))>>)),
      Member("version", DStr("1.2.3"))>>

\* the members the "info" of a PyPI document can have
PyPIMembers ==
    <<Member("author", DStr("an author")),
      Member("author_email", DStr("mail")),
      Member("classifiers", DArr(<<DStr("c1"), DNum, DStr("c2")>>)),
      Member("description", DStr("long text")),
      Member("description_content_type", DStr("text/markdown")),
      Member("documentation_url", DStr("docs")),
      Member("home_page", DStr("home")),
      Member("license", DStr("MIT")),
      Member("project_urls", DObj(<<Member("Documentation", DStr("docs of the project")),
                                    Member("Source", DStr("source"))>>)),
      Member("requires_dist", DArr(<<DStr("r1"), DStr("r2")>>)),
      Member("summary", DStr("a summary")),
      Member("version", DStr("1.2.3"))>>

KeysOf(members) == {members[i].k : i \in 1..Len(members)}

\* the members named in keys, in their order
Only(members, keys) == SelectSeq(members, LAMBDA m : m.k \in keys)

\* members with the one named key given another value
With(members, key, v) ==
    [i \in 1..Len(members) |-> IF members[i].k = key THEN Member(key, v) ELSE members[i]]

\* fields held with a type the renderer does not read
NpmOddMembers ==
    With(With(With(With(NpmMembers, "repository", DStr("repo as a string")),
                   "license", DObj(<<Member("type", DStr("MIT"))>>)),
              "keywords", DStr("k1 k2")),
         "version", DNum)

PyPIOddMembers ==
    With(With(With(PyPIMembers, "project_urls", DStr("links as a string")),
              "classifiers", DObj(<<Member("c", DStr("c1"))>>)),
         "author", DNum)

NpmDocuments ==
    {JsonBody(Only(NpmMembers, keys), None) : keys \in SUBSET KeysOf(NpmMembers)}
    \cup {JsonBody(Only(NpmOddMembers, {k}), None) :
              k \in {"repository", "license", "keywords", "version"}}

Info(members) == <<Member("info", DObj(members))>>

PyPIDocuments ==
    {JsonBody(Info(Only(PyPIMembers, keys)), None) : keys \in SUBSET KeysOf(PyPIMembers)}
    \cup {JsonBody(Info(Only(With(PyPIMembers, "project_urls",
                                   DObj(<<Member("Source", DStr("source"))>>)), keys)), None) :
              keys \in SUBSET {"project_urls", "documentation_url", "version"}}
    \cup {JsonBody(Info(Only(With(PyPIMembers, "description_content_type", DStr(ct)),
                             {"description", "description_content_type"})), None) :
              ct \in ContentTypes}
    \cup {JsonBody(Info(Only(PyPIOddMembers, {k})), None) :
              k \in {"project_urls", "classifiers", "author", "author_email"}}
    \cup {JsonBody(<<>>, None), JsonBody(<<Member("info", DStr("no object"))>>, None),
          JsonBody(Only(PyPIMembers, {"version", "summary"}), None)}

DocumentWorkloads ==
    {Workload({Req("lookup_npm_package", Args1("package_name", JStr(Sa)))}, {},
              {Response(200, Some(doc))}) : doc \in NpmDocuments}
    \cup {Workload({Req("lookup_pypi_package", Args1("package_name", JStr(Sa)))}, {},
                   {Response(200, Some(doc))}) : doc \in PyPIDocuments}

InitDocuments == InitOver(DocumentWorkloads, NumArgsCalls)

SpecDocuments == InitDocuments /\ [][NextMemo]_vars

(* ------------------------------------------------------------------ *)
(* C39  the markdown of lookup_npm_package and lookup_pypi_package      *)
(* ------------------------------------------------------------------ *)
\* call t fetched a document and rendered it
RenderedLookup(t) ==
    /\ task[t].pc = "done"
    /\ task[t].tool_name \in {"lookup_npm_package", "lookup_pypi_package"}
    /\ task[t].urls # <<>>
    /\ task[t].result.ok

\* the object the fields of call t's document are read from: the document
\* itself for npm, its "info" for PyPI
FieldsRead(t) ==
    LET doc == DObj(task[t].answer.val.text.val.fields)
    IN  IF task[t].tool_name = "lookup_npm_package" THEN Some(doc)
        ELSE value_get(doc, "info")

\* the labels in their one order, and the fields of the document a label shows
LabelOrder(tool) ==
    IF tool = "lookup_npm_package"
    THEN <<"**Version:**", "", "**Keywords:**", "**Homepage:**", "**Repository:**",
           "**License:**", "## Dependencies", "## Dev Dependencies", "## Documentation">>
    ELSE <<"**Version:**", "", "**Author:**", "**Homepage:**", "**License:**",
           "**Classifiers:**", "**Project Links:**", "## Description", "## Requirements",
           "## Documentation">>

FieldsOf(tool, label) ==
    IF tool = "lookup_npm_package"
    THEN CASE label = "**Version:**" -> {"version"}
           [] label = "" -> {"description"}
           [] label = "**Keywords:**" -> {"keywords"}
           [] label = "**Homepage:**" -> {"homepage"}
           [] label = "**Repository:**" -> {"repository"}
           [] label = "**License:**" -> {"license"}
           [] label = "## Dependencies" -> {"dependencies"}
           [] label = "## Dev Dependencies" -> {"devDependencies"}
           [] label = "## Documentation" -> {"readme"}
    ELSE CASE label = "**Version:**" -> {"version"}
           [] label = "" -> {"summary"}
           [] label = "**Author:**" -> {"author"}
           [] label = "**Homepage:**" -> {"home_page"}
           [] label = "**License:**" -> {"license"}
           [] label = "**Classifiers:**" -> {"classifiers"}
           [] label = "**Project Links:**" -> {"project_urls"}
           [] label = "## Description" -> {"description"}
           [] label = "## Requirements" -> {"requires_dist"}
           [] label = "## Documentation" -> {"project_urls", "documentation_url"}

\* the parts after the title of the text call t returned
Parts(t) ==
    LET pieces == TextOf(task[t].result).pieces
    IN  SubSeq(pieces, 2, Len(pieces))

PlaceOf(label, order) == CHOOSE i \in 1..Len(order) : order[i] = label

\* the title comes first, the labels follow in their one order and none
\* comes twice
TitleThenLabelsInOrder(t) ==
    LET order == LabelOrder(task[t].tool_name)
        parts == Parts(t)
    IN  /\ TextOf(task[t].result).pieces[1]
               = [title |-> GetStr(task[t].arguments, "package_name").val]
        /\ \A i \in 1..Len(parts) : \E j \in 1..Len(order) : order[j] = parts[i].label
        /\ \A i, j \in 1..Len(parts) :
               i < j => PlaceOf(parts[i].label, order) < PlaceOf(parts[j].label, order)

\* a part is there only when the document has a field it shows
OnlyPresentFields(t) ==
    \A i \in 1..Len(Parts(t)) :
        \E key \in FieldsOf(task[t].tool_name, Parts(t)[i].label) :
            opt_get(FieldsRead(t), key).some

\* the strings of the document the text shows, with the label they are under;
\* separators and fences are not of the document
Separators == {", ", "code fence"}

Showings(t) ==
    UNION {{[label |-> Parts(t)[i].label, at |-> j, text |-> Parts(t)[i].shown[j].text] :
                j \in {k \in 1..Len(Parts(t)[i].shown) :
                           Parts(t)[i].shown[k].text \notin Separators}} :
               i \in 1..Len(Parts(t))}

\* the link project_urls has under "Documentation"
ProjectDocumentation(t) ==
    get_str(opt_get(FieldsRead(t), "project_urls"), "Documentation")

\* C39 (as written): each JSON-to-markdown rendering emits the title line
\* first and then its labeled fields in one fixed order, emitting a field only
\* when it is present in the source document and never emitting the same field
\* twice, for every subset of present fields.
C39_Original ==
    \A t \in DOMAIN task :
        RenderedLookup(t)
        => /\ TitleThenLabelsInOrder(t)
           /\ OnlyPresentFields(t)
           /\ \A x, y \in Showings(t) : x.text = y.text => x = y

\* C39 (amended): each rendering emits the title line first and then its
\* labeled parts in one fixed order, a part only when a field it shows is
\* present in the document, and no label twice.  No string of the document is
\* emitted twice, but for one: the "Documentation" link of a PyPI document's
\* project_urls is emitted under Project Links and again under Documentation.
C39_FieldsInOrderOnce ==
    \A t \in DOMAIN task :
        RenderedLookup(t)
        => /\ TitleThenLabelsInOrder(t)
           /\ OnlyPresentFields(t)
           /\ \A x, y \in Showings(t) :
                  (x.text = y.text /\ x # y)
                  => /\ task[t].tool_name = "lookup_pypi_package"
                     /\ ProjectDocumentation(t) = Some(x.text)
                     /\ {x.label, y.label} = {"**Project Links:**", "## Documentation"}
           /\ (task[t].tool_name = "lookup_pypi_package" /\ ProjectDocumentation(t).some)
              => \E x, y \in Showings(t) :
                     /\ x.label = "**Project Links:**" /\ y.label = "## Documentation"
                     /\ x.text = ProjectDocumentation(t).val
                     /\ y.text = ProjectDocumentation(t).val

\* lookup_pypi_package rendered a document whose info has every field: ten
\* labeled parts after the title, the Documentation link shown twice
C39_Witness ==
    /\ RenderedLookup(1) /\ task[1].tool_name = "lookup_pypi_package"
    /\ FieldsRead(1) = Some(DObj(PyPIMembers))
    /\ Len(Parts(1)) = 10
    /\ \E x, y \in Showings(1) :
           /\ x.label = "**Project Links:**" /\ y.label = "## Documentation"
           /\ x.text = "docs of the project" /\ y.text = "docs of the project"

====
